---- MODULE Spec2Model ----
(***************************************************************************)
(* Ranking core of the social platform backend: the two trending-score     *)
(* formulas (posts/tasks.py, posts/views.py), the interest graph           *)
(* (posts/models.py), the sectioned feed (posts/views.py) and the search   *)
(* ranker (search/views.py).                                               *)
(*                                                                         *)
(* Time is counted in whole hours.  Float scores are kept exact:           *)
(*   - a batch score is the reduced fraction n/d,                          *)
(*   - an incremental score (m/2) / (h+2)^1.8 is kept as the pair (m, h);  *)
(*     x^1.8 is strictly increasing, and for the instants used h+2 is      *)
(*     never a perfect fifth power, so two such scores with m > 0 are      *)
(*     equal exactly when both m and h are equal, and none equals a        *)
(*     fraction.                                                           *)
(***************************************************************************)
EXTENDS Integers, Sequences, FiniteSets, TLC

\* the trending score of one post
VARIABLES now, likes, comments, views, shares, ts, lastCalc, added
\* the interest graph of one user
VARIABLES following, postLikes, interactions, graph, suggested
\* one client scrolling the feed over a fixed snapshot of posts
VARIABLES fAuthor, fTrend, viewerAuth, igraph, reqSection, reqLimit,
          page, resp, acc, scroll, wellFormed
\* one search request over a fixed set of candidates
VARIABLES qParam, model, cand, results
\* one run of the batch sweep over several posts
VARIABLES sweepIn, sweepRows, sweepResult
\* the search endpoint with its result cache
VARIABLES cache, listResp, requests
\* concurrent requests and recalculations: the position and the locals of each
VARIABLES procs
\* the lazily refreshed records of one user: its activity rows by post type,
\* its content preferences, the age of its graph row, and the last access
VARIABLES activity, pref, graphUpdated, access
\* the last follow, unfollow or like event of Owner and whether its receiver recalculated the graph
VARIABLES signal

trendVars == <<now, likes, comments, views, shares, ts, lastCalc, added>>
graphVars == <<following, postLikes, interactions, graph, suggested>>

feedVars == <<fAuthor, fTrend, viewerAuth, igraph, reqSection, reqLimit,
              page, resp, acc, scroll, wellFormed>>

searchVars == <<qParam, model, cand, results>>
sweepVars == <<sweepIn, sweepRows, sweepResult>>
listVars == <<cache, listResp, requests>>

procsVars == <<procs>>
lazyVars == <<activity, pref, graphUpdated, access>>
signalVars == <<signal>>
vars == <<trendVars, graphVars, feedVars, searchVars, sweepVars, listVars, procsVars, lazyVars, signalVars>>

notTrend == <<graphVars, feedVars, searchVars, sweepVars, listVars, procsVars, lazyVars, signalVars>>
notGraph == <<trendVars, feedVars, searchVars, sweepVars, listVars, procsVars, lazyVars, signalVars>>
notFeed == <<trendVars, graphVars, searchVars, sweepVars, listVars, procsVars, lazyVars, signalVars>>
notSearch == <<trendVars, graphVars, feedVars, sweepVars, listVars, procsVars, lazyVars, signalVars>>
notSweep == <<trendVars, graphVars, feedVars, searchVars, listVars, procsVars, lazyVars, signalVars>>
notList == <<trendVars, graphVars, feedVars, sweepVars, procsVars, lazyVars, signalVars>>
notProcs == <<feedVars, searchVars, sweepVars, listVars, lazyVars, signalVars>>
notLazy == <<feedVars, searchVars, sweepVars, listVars, procsVars, signalVars>>
notSignal == <<trendVars, feedVars, searchVars, sweepVars, listVars, procsVars, lazyVars>>

\* "no row" / "nothing yet"
None == [kind |-> "none"]

(***************************************************************************)
(* Bounds of the model.                                                    *)
(***************************************************************************)
\* interaction rows (likes, comments, views, shares) added in one behaviour
MaxRows == 2

\* The instants (hours since the post was created) the clock visits: inside
\* and exactly on every boundary of the age tiers and of the three windows.
Instants == {0, 12, 24, 72, 168, 336, 744}

(***************************************************************************)
(* posts/tasks.py: the three trailing windows, in hours.                   *)
(***************************************************************************)
DayHours == 1 * 24
WeekHours == 7 * 24
MonthHours == 30 * 24

(***************************************************************************)
(* Helpers.                                                                *)
(***************************************************************************)
RECURSIVE GCD(_, _)
GCD(a, b) == IF b = 0 THEN a ELSE GCD(b, a % b)

\* A float that is the exact fraction n/d (d > 0), in lowest terms.
Rat(n, d) == IF n = 0 THEN [k |-> "rat", n |-> 0, d |-> 1]
             ELSE [k |-> "rat", n |-> n \div GCD(n, d), d |-> d \div GCD(n, d)]

ZeroScore == Rat(0, 1)

\* The float (m/2) / (h+2)^1.8 .
Decayed(m, h) == IF m = 0 THEN ZeroScore ELSE [k |-> "dec", m |-> m, h |-> h]

\* s <= t for two scores of the same formula.
ScoreLeq(s, t) ==
    IF s.k = "rat" /\ t.k = "rat" THEN s.n * t.d <= t.n * s.d
    ELSE IF s.k = "dec" /\ t.k = "dec" /\ s.h = t.h THEN s.m <= t.m
    ELSE IF s = ZeroScore THEN TRUE
    ELSE FALSE

\* A related manager's rows as a bag: created_at -> number of rows.
EmptyBag == [t \in Instants |-> 0]

RECURSIVE BagSum(_, _)
BagSum(b, S) == IF S = {} THEN 0
                ELSE LET t == CHOOSE x \in S : TRUE
                     IN b[t] + BagSum(b, S \ {t})

\* .count()
BagCount(b) == BagSum(b, Instants)

\* .filter(created_at__gte=since).count()
CountSince(b, since) == BagSum(b, {t \in Instants : t >= since})

BagAdd(b, t) == [b EXCEPT ![t] = @ + 1]

(***************************************************************************)
(* TrendingScore rows (posts/models.py).                                   *)
(***************************************************************************)
TrendingScore(score, v, l, c, s, at) ==
    [score |-> score, view_count |-> v, like_count |-> l,
     comment_count |-> c, share_count |-> s, last_calculated |-> at]

DefaultTrendingScore(at) == TrendingScore(ZeroScore, 0, 0, 0, 0, at)

(***************************************************************************)
(* The batch formula of update_trending_scores.                            *)
(***************************************************************************)
\* (now - post.created_at).days + 1 ; the post is created at hour 0
post_age_days(t) == (t \div 24) + 1

\* age_factor with the 14-day and 30-day tiers exchanged
age_factor_swapped(t) ==
    LET d == post_age_days(t)
    IN IF d <= 1 THEN 15
       ELSE IF d <= 3 THEN 12
       ELSE IF d <= 7 THEN 10
       ELSE IF d <= 14 THEN 6
       ELSE IF d <= 30 THEN 8
       ELSE 4

\* age_factor, in tenths
age_factor(t) ==
    LET d == post_age_days(t)
    IN IF d <= 1 THEN 15
       ELSE IF d <= 3 THEN 12
       ELSE IF d <= 7 THEN 10
       ELSE IF d <= 14 THEN 8
       ELSE IF d <= 30 THEN 6
       ELSE 4

\* likes_score over disjoint windows (a like counted in one window only)
likes_score_disjoint(lk, t) ==
    CountSince(lk, t - DayHours) * 10
        + (CountSince(lk, t - WeekHours) - CountSince(lk, t - DayHours)) * 5
        + (CountSince(lk, t - MonthHours) - CountSince(lk, t - WeekHours)) * 1

likes_score(lk, t) ==
    CountSince(lk, t - DayHours) * 10 + CountSince(lk, t - WeekHours) * 5
        + CountSince(lk, t - MonthHours) * 1

comments_score(cm, t) ==
    CountSince(cm, t - DayHours) * 15 + CountSince(cm, t - WeekHours) * 7
        + CountSince(cm, t - MonthHours) * 2

\* views_score times 10
views_score10(vw, t) ==
    CountSince(vw, t - DayHours) * 10 + CountSince(vw, t - WeekHours) * 5
        + CountSince(vw, t - MonthHours) * 1

\* post.views.count() or 1
total_views(vw) == IF BagCount(vw) = 0 THEN 1 ELSE BagCount(vw)

\* final_score with the engagement ratio taken from the counts stored in the
\* TrendingScore row instead of the live counts
final_score_stored_counts(lk, cm, vw, t) ==
    Rat((100 * likes_score(lk, t) + 150 * comments_score(cm, t)
            + 8 * views_score10(vw, t))
          * (IF ts = None THEN 0 ELSE ts.like_count + ts.comment_count)
          * age_factor(t),
        1000 * total_views(vw))

\* final_score with the engagement ratio upside down (views per interaction)
final_score_inverted(lk, cm, vw, t) ==
    Rat((100 * likes_score(lk, t) + 150 * comments_score(cm, t)
            + 8 * views_score10(vw, t))
          * BagCount(vw) * age_factor(t),
        1000 * (IF BagCount(lk) + BagCount(cm) = 0 THEN 1
                ELSE BagCount(lk) + BagCount(cm)))

\* (likes_score*1.0 + comments_score*1.5 + views_score*0.8)
\*     * engagement_ratio * age_factor
final_score(lk, cm, vw, t) ==
    Rat((100 * likes_score(lk, t) + 150 * comments_score(cm, t)
            + 8 * views_score10(vw, t))
          * (BagCount(lk) + BagCount(cm)) * age_factor(t),
        1000 * total_views(vw))

\* The locals of one pass of the loop body, kept for inspection.
BatchLocals(lk, cm, vw, t) ==
    [kind |-> "batch", at |-> t,
     runs |-> IF lastCalc.kind = "batch" THEN 2 ELSE 1,
     day_likes |-> CountSince(lk, t - DayHours),
     total_likes |-> BagCount(lk), total_comments |-> BagCount(cm),
     views |-> BagCount(vw),
     likes_score |-> likes_score(lk, t),
     views_score10 |-> views_score10(vw, t),
     engagement_ratio |-> Rat(BagCount(lk) + BagCount(cm), total_views(vw)),
     age_factor |-> age_factor(t),
     score |-> final_score(lk, cm, vw, t)]

update_trending_scores ==
    /\ ts' = TrendingScore(final_score(likes, comments, views, now),
                           BagCount(views), BagCount(likes), BagCount(comments),
                           shares, now)
    /\ lastCalc' = BatchLocals(likes, comments, views, now)
    /\ UNCHANGED <<now, likes, comments, views, shares, added, notTrend>>

(***************************************************************************)
(* The incremental formula of PostViewSet._update_trending_score.          *)
(***************************************************************************)
\* (1.5*likes + 2.0*comments + 2.5*shares) / (hours + 2) ** 1.8
incremental_score(l, c, s, t) == Decayed(3 * l + 4 * c + 5 * s, t)

_update_trending_score ==
    LET row == IF ts = None THEN DefaultTrendingScore(now) ELSE ts
    IN /\ ts' = [row EXCEPT
                   !.like_count = BagCount(likes),
                   !.comment_count = BagCount(comments),
                   !.share_count = shares,
                   !.score = incremental_score(BagCount(likes),
                                 BagCount(comments), shares, now),
                   !.last_calculated = now]
       /\ lastCalc' = [kind |-> "inc", at |-> now,
                        runs |-> IF lastCalc.kind = "inc" THEN 2 ELSE 1]
       /\ UNCHANGED <<now, likes, comments, views, shares, added, notTrend>>

(***************************************************************************)
(* The interaction store and the clock.                                    *)
(***************************************************************************)
\* a user likes the post; the filter of the sweep reads the liker row's
\* created_at, which is any instant up to now
AddLike ==
    /\ added < MaxRows
    /\ added' = added + 1
    /\ \E t \in {0, now} : likes' = BagAdd(likes, t)
    /\ lastCalc' = None
    /\ UNCHANGED <<now, comments, views, shares, ts, notTrend>>

AddComment ==
    /\ added < MaxRows
    /\ added' = added + 1
    /\ comments' = BagAdd(comments, now)
    /\ lastCalc' = None
    /\ UNCHANGED <<now, likes, views, shares, ts, notTrend>>

AddView ==
    /\ added < MaxRows
    /\ added' = added + 1
    /\ views' = BagAdd(views, now)
    /\ lastCalc' = None
    /\ UNCHANGED <<now, likes, comments, shares, ts, notTrend>>

AddShare ==
    /\ added < MaxRows
    /\ added' = added + 1
    /\ shares' = shares + 1
    /\ lastCalc' = None
    /\ UNCHANGED <<now, likes, comments, views, ts, notTrend>>

Tick ==
    /\ \E t \in Instants :
         /\ t > now
         /\ \A u \in Instants : u > now => t <= u
         /\ now' = t
    /\ UNCHANGED <<likes, comments, views, shares, ts, lastCalc, added, notTrend>>

\* A post right after creation (perform_create makes its TrendingScore row;
\* imported posts have none), either without interactions or with the
\* interactions of the worked example: 5 likes and 20 views.
TrendInit ==
    /\ now = 0
    /\ \E ex \in BOOLEAN :
         /\ likes = IF ex THEN [EmptyBag EXCEPT ![0] = 5] ELSE EmptyBag
         /\ views = IF ex THEN [EmptyBag EXCEPT ![0] = 20] ELSE EmptyBag
    /\ comments = EmptyBag
    /\ shares = 0
    /\ ts \in {None, DefaultTrendingScore(0)}
    /\ lastCalc = None
    /\ added = 0
    \* no interest graph
    /\ following = {}
    /\ postLikes = {}
    /\ interactions = {}
    /\ graph = None
    \* no feed request
    /\ fAuthor = <<>>
    /\ fTrend = <<>>
    /\ viewerAuth = FALSE
    /\ igraph = <<>>
    /\ reqSection = "all"
    /\ reqLimit = 1
    /\ page = 0
    /\ resp = None
    /\ acc = <<>>
    /\ scroll = "open"
    \* no search request
    /\ qParam = <<>>
    /\ model = "Post"
    /\ cand = <<>>
    /\ results = None
    /\ suggested = None
    /\ wellFormed = TRUE
    \* no sweep
    /\ sweepIn = <<>>
    /\ sweepRows = <<>>
    /\ sweepResult = None
    \* no search endpoint request
    /\ cache = <<>>
    /\ listResp = None
    /\ requests = 0
    /\ signal = None
    /\ activity = <<>>
    /\ pref = None
    /\ graphUpdated = 0
    /\ access = None
    /\ procs = <<>>

TrendNext ==
    \/ update_trending_scores
    \/ _update_trending_score
    \/ AddLike
    \/ AddComment
    \/ AddView
    \/ AddShare
    \/ Tick

SpecTrend == TrendInit /\ [][TrendNext]_vars

(***************************************************************************)
(* Properties of the trending formulas.                                    *)
(***************************************************************************)
\* A recalculation that directly follows one of the same formula, with no
\* change of likes, comments, views or shares in between.
RepeatedBatch == update_trending_scores /\ lastCalc.kind = "batch"
RepeatedIncremental == _update_trending_score /\ lastCalc.kind = "inc"

C5_Monotone ==
    [][AddLike \/ AddComment =>
         /\ ScoreLeq(final_score(likes, comments, views, now),
                     final_score(likes', comments', views', now'))
         /\ ScoreLeq(incremental_score(BagCount(likes), BagCount(comments),
                                       shares, now),
                     incremental_score(BagCount(likes'), BagCount(comments'),
                                       shares', now'))]_vars

\* a like and a comment were added to a viewed post and the sweep scored it
C5_Witness ==
    /\ added >= 2
    /\ BagCount(likes) >= 1
    /\ BagCount(comments) >= 1
    /\ BagCount(views) >= 1
    /\ lastCalc.kind = "batch"
    /\ ts.score # ZeroScore

\* The worked example: the sweep ran on a post created 12 hours ago that has
\* 5 likes (all within the last day), no comments and 20 views.
Example ==
    /\ lastCalc.kind = "batch"
    /\ lastCalc.at = 12
    /\ lastCalc.day_likes = 5
    /\ lastCalc.total_likes = 5
    /\ lastCalc.total_comments = 0
    /\ lastCalc.views = 20

\* C6 as stated: on the worked example the batch formula computes
\* age_factor = 1.5, likes_score = 50, engagement_ratio = 0.25 and stores
\* score = 18.75.
C6_AsStated ==
    Example =>
        /\ lastCalc.age_factor = 15
        /\ lastCalc.likes_score = 50
        /\ lastCalc.engagement_ratio = Rat(1, 4)
        /\ ts.score = Rat(1875, 100)

\* C6: on the worked example the batch formula computes age_factor = 1.5,
\* likes_score = 80 (the 5 likes count in all three windows), views_score = 32,
\* engagement_ratio = 0.25 and stores score = (80 + 0.8*32) * 0.25 * 1.5 = 39.6.
C6_Example ==
    Example =>
        /\ lastCalc.age_factor = 15
        /\ lastCalc.likes_score = 80
        /\ lastCalc.views_score10 = 320
        /\ lastCalc.engagement_ratio = Rat(1, 4)
        /\ ts.score = Rat(396, 10)

C6_Witness == Example /\ ts.score = lastCalc.score

\* The age tiers as documented: a step function of the age in days whose
\* tiers close at exactly 1, 3, 7, 14 and 30 days (tenths).
DocumentedAgeFactor(t) ==
    IF t <= 1 * 24 THEN 15
    ELSE IF t <= 3 * 24 THEN 12
    ELSE IF t <= 7 * 24 THEN 10
    ELSE IF t <= 14 * 24 THEN 8
    ELSE IF t <= 30 * 24 THEN 6
    ELSE 4

\* C7: the age_factor of the batch formula is the documented step function:
\* <= 1 day gives 1.5, <= 3 days 1.2, <= 7 days 1.0, <= 14 days 0.8,
\* <= 30 days 0.6, older 0.4, a post exactly on a boundary still getting the
\* factor of the tier it closes.
C7_AgeTiers ==
    lastCalc.kind = "batch" => lastCalc.age_factor = DocumentedAgeFactor(lastCalc.at)

\* C8: an older post never gets a larger age_factor than a younger one, and
\* every age_factor is one of 1.5, 1.2, 1.0, 0.8, 0.6, 0.4.
C8_NonIncreasing ==
    [][lastCalc'.kind = "batch" =>
         /\ lastCalc'.age_factor \in {15, 12, 10, 8, 6, 4}
         /\ (lastCalc.kind = "batch" /\ lastCalc'.at > lastCalc.at
               => lastCalc'.age_factor <= lastCalc.age_factor)]_vars

\* the sweep has scored the post again when it was more than 30 days old
C8_Witness ==
    /\ lastCalc.kind = "batch"
    /\ lastCalc.runs = 2
    /\ lastCalc.at > 720
    /\ lastCalc.age_factor = 4

(***************************************************************************)
(* The request handlers that add or remove a like, a comment or a          *)
(* PostInteraction of the post (posts/views.py).  lastCalc keeps the last  *)
(* handler that ran and when.                                              *)
(***************************************************************************)
BagRemove(b, t) == [b EXCEPT ![t] = @ - 1]

Handled(op) == [kind |-> "op", op |-> op, at |-> now]

\* the row _update_trending_score(post) saves when the post has l likes,
\* c comments and s shares
IncrementalRow(l, c, s) ==
    LET row == IF ts = None THEN DefaultTrendingScore(now) ELSE ts
    IN [row EXCEPT !.like_count = l, !.comment_count = c, !.share_count = s,
                   !.score = incremental_score(l, c, s, now),
                   !.last_calculated = now]

\* PostViewSet.like: removes the requesting user's like when there is one,
\* adds it otherwise
like ==
    /\ \/ /\ added < MaxRows
          /\ added' = added + 1
          /\ \E t \in {0, now} : likes' = BagAdd(likes, t)
       \/ /\ \E t \in Instants : likes[t] > 0 /\ likes' = BagRemove(likes, t)
          /\ added' = added
    /\ lastCalc' = Handled("like")
    /\ UNCHANGED <<now, comments, views, shares, ts, notTrend>>

\* PostViewSet.comments, POST with content by an authenticated user
post_comment ==
    /\ added < MaxRows
    /\ added' = added + 1
    /\ comments' = BagAdd(comments, now)
    /\ lastCalc' = Handled("comments")
    /\ UNCHANGED <<now, likes, views, shares, ts, notTrend>>

\* PostViewSet.delete_comment by the comment's author
delete_comment ==
    /\ \E t \in Instants : comments[t] > 0 /\ comments' = BagRemove(comments, t)
    /\ lastCalc' = Handled("delete_comment")
    /\ UNCHANGED <<now, likes, views, shares, ts, added, notTrend>>

\* CommentViewSet.reply to a comment of the post, with valid data
reply ==
    /\ BagCount(comments) > 0
    /\ added < MaxRows
    /\ added' = added + 1
    /\ comments' = BagAdd(comments, now)
    /\ ts' = IncrementalRow(BagCount(likes), BagCount(comments'), shares)
    /\ lastCalc' = Handled("reply")
    /\ UNCHANGED <<now, likes, views, shares, notTrend>>

\* PostInteractionViewSet.perform_create of a SHARE or a SAVE row
perform_create ==
    /\ added < MaxRows
    /\ added' = added + 1
    /\ \E type \in {"SHARE", "SAVE"} :
          shares' = IF type = "SHARE" THEN shares + 1 ELSE shares
    /\ ts' = IncrementalRow(BagCount(likes), BagCount(comments), shares')
    /\ lastCalc' = Handled("perform_create")
    /\ UNCHANGED <<now, likes, comments, views, notTrend>>

\* PostInteractionViewSet.perform_destroy of the user's SHARE row
perform_destroy ==
    /\ shares > 0
    /\ shares' = shares - 1
    /\ ts' = IncrementalRow(BagCount(likes), BagCount(comments), shares')
    /\ lastCalc' = Handled("perform_destroy")
    /\ UNCHANGED <<now, likes, comments, views, added, notTrend>>

\* a post right after creation, with or without its TrendingScore row
MutateInit ==
    /\ now = 0
    /\ likes = EmptyBag
    /\ views = EmptyBag
    /\ comments = EmptyBag
    /\ shares = 0
    /\ ts \in {None, DefaultTrendingScore(0)}
    /\ lastCalc = None
    /\ added = 0
    \* no interest graph
    /\ following = {}
    /\ postLikes = {}
    /\ interactions = {}
    /\ graph = None
    /\ suggested = None
    \* no feed request
    /\ fAuthor = <<>>
    /\ fTrend = <<>>
    /\ viewerAuth = FALSE
    /\ igraph = <<>>
    /\ reqSection = "all"
    /\ reqLimit = 1
    /\ page = 0
    /\ resp = None
    /\ acc = <<>>
    /\ scroll = "open"
    /\ wellFormed = TRUE
    \* no search request
    /\ qParam = <<>>
    /\ model = "Post"
    /\ cand = <<>>
    /\ results = None
    \* no sweep
    /\ sweepIn = <<>>
    /\ sweepRows = <<>>
    /\ sweepResult = None
    \* no search endpoint request
    /\ cache = <<>>
    /\ listResp = None
    /\ requests = 0
    /\ signal = None
    /\ activity = <<>>
    /\ pref = None
    /\ graphUpdated = 0
    /\ access = None
    /\ procs = <<>>

MutateNext ==
    \/ like
    \/ post_comment
    \/ delete_comment
    \/ reply
    \/ perform_create
    \/ perform_destroy
    \/ Tick

SpecMutate == MutateInit /\ [][MutateNext]_vars

\* C20: when a handler that adds or removes a like, a comment or a share has
\* returned, the post's TrendingScore row exists and its score is the
\* incremental formula of the post's present likes, comments and shares at
\* the time of the operation.
C20_ScoreRewritten ==
    lastCalc.kind = "op" /\ lastCalc.at = now =>
        /\ ts # None
        /\ ts.score = incremental_score(BagCount(likes), BagCount(comments),
                                        shares, now)

(***************************************************************************)
(* The whole task update_trending_scores (posts/tasks.py) over three posts *)
(* created at hour 0 and swept at hour 12.  Every like and view is within  *)
(* the last day; there are no comments or shares.                          *)
(***************************************************************************)
SweptPosts == {"q1", "q2", "q3"}

MaxSweepLikes == 1
MaxSweepViews == 1

\* half a day after the posts were created
SweepHour == DayHours \div 2

\* created_at of the swept posts, for the '-created_at' of the ordering:
\* q3 is the newest
SweepRank == [p \in SweptPosts |->
                 CASE p = "q1" -> 3 [] p = "q2" -> 2 [] OTHER -> 1]

AtLeastOne(n) == IF n = 0 THEN 1 ELSE n

\* The annotations recent_likes and recent_views: Count over the joins of
\* likes and views in one query, so each counts the rows of the product.
recent_likes(p) == sweepIn[p].likes * AtLeastOne(sweepIn[p].views)
recent_views(p) == sweepIn[p].views * AtLeastOne(sweepIn[p].likes)

\* order_by('-recent_likes', '-recent_comments', '-recent_views',
\*          '-created_at')
RECURSIVE SweepOrder(_)
SweepOrder(S) ==
    IF S = {} THEN <<>>
    ELSE LET m == CHOOSE x \in S : \A y \in S \ {x} :
                     \/ recent_likes(x) > recent_likes(y)
                     \/ /\ recent_likes(x) = recent_likes(y)
                        /\ recent_views(x) > recent_views(y)
                     \/ /\ recent_likes(x) = recent_likes(y)
                        /\ recent_views(x) = recent_views(y)
                        /\ SweepRank[x] < SweepRank[y]
         IN <<m>> \o SweepOrder(S \ {m})

\* the row update_or_create writes for post p
SweptRow(p) ==
    LET lk == [EmptyBag EXCEPT ![0] = sweepIn[p].likes]
        vw == [EmptyBag EXCEPT ![0] = sweepIn[p].views]
    IN TrendingScore(final_score(lk, EmptyBag, vw, SweepHour),
                     sweepIn[p].views, sweepIn[p].likes, 0, 0, SweepHour)

\* The loop over the posts from position i on; scoring the post at position
\* stop raises (stop = 0: nothing raises).  st holds the rows and the two
\* counters.
RECURSIVE SweepLoop(_, _, _, _)
SweepLoop(order, i, stop, st) ==
    IF i > Len(order) \/ i = stop THEN st
    ELSE LET p == order[i]
             created == st.rows[p] = None
         IN SweepLoop(order, i + 1, stop,
                [rows |-> [st.rows EXCEPT ![p] = SweptRow(p)],
                 \* created or trending_score.score != final_score
                 updated |-> st.updated + (IF created THEN 1 ELSE 0),
                 processed |-> st.processed + 1])

\* update_trending_scores(): the try block around the whole loop returns the
\* two counts, the except branch returns only the error text
trending_sweep ==
    /\ sweepResult = None
    /\ \E stop \in 0..Cardinality(SweptPosts) :
         LET order == SweepOrder(SweptPosts)
             st == SweepLoop(order, 1, stop,
                             [rows |-> sweepRows, updated |-> 0,
                              processed |-> 0])
         IN /\ sweepRows' = st.rows
            /\ sweepResult' =
                 IF stop = 0
                 THEN [keys |-> {"processed", "updated"},
                       processed |-> st.processed, updated |-> st.updated,
                       failed |-> "none", before |-> sweepRows]
                 ELSE [keys |-> {"error"}, processed |-> 0, updated |-> 0,
                       failed |-> order[stop], before |-> sweepRows]
    /\ UNCHANGED <<sweepIn, notSweep>>

\* Posts with any likes and views, some with a TrendingScore row from their
\* creation.
SweepInit ==
    /\ sweepIn \in [SweptPosts -> [likes : 0..MaxSweepLikes,
                                   views : 0..MaxSweepViews]]
    /\ sweepRows \in [SweptPosts -> {None, DefaultTrendingScore(0)}]
    /\ sweepResult = None
    /\ now = SweepHour
    /\ likes = EmptyBag
    /\ comments = EmptyBag
    /\ views = EmptyBag
    /\ shares = 0
    /\ ts = None
    /\ lastCalc = None
    /\ added = 0
    \* no interest graph
    /\ following = {}
    /\ postLikes = {}
    /\ interactions = {}
    /\ graph = None
    /\ suggested = None
    \* no feed request
    /\ fAuthor = <<>>
    /\ fTrend = <<>>
    /\ viewerAuth = FALSE
    /\ igraph = <<>>
    /\ reqSection = "all"
    /\ reqLimit = 1
    /\ page = 0
    /\ resp = None
    /\ acc = <<>>
    /\ scroll = "open"
    /\ wellFormed = TRUE
    \* no search request
    /\ qParam = <<>>
    /\ model = "Post"
    /\ cand = <<>>
    /\ results = None
    \* no search endpoint request
    /\ cache = <<>>
    /\ listResp = None
    /\ requests = 0
    /\ signal = None
    /\ activity = <<>>
    /\ pref = None
    /\ graphUpdated = 0
    /\ access = None
    /\ procs = <<>>

SweepNext == trending_sweep

SpecSweep == SweepInit /\ [][SweepNext]_vars

\* C13: when scoring one post fails, every other selected post still has its
\* TrendingScore written by this sweep, and the result reports the processed
\* and updated counts together with an error count.
C13_SweepSurvivesFailure ==
    sweepResult # None /\ sweepResult.failed # "none" =>
        /\ \A p \in SweptPosts \ {sweepResult.failed} :
              sweepRows[p] = SweptRow(p)
        /\ {"processed", "updated"} \subseteq sweepResult.keys
        /\ sweepResult.processed = Cardinality(SweptPosts) - 1

\* C29: the 'updated' count a sweep returns is the number of processed
\* posts whose TrendingScore row the sweep created or whose stored score
\* after the sweep differs from the stored score before it.
C29_UpdatedCount ==
    sweepResult # None /\ sweepResult.failed = "none" =>
        sweepResult.updated =
            Cardinality({p \in SweptPosts :
                            \/ sweepResult.before[p] = None
                            \/ sweepResult.before[p].score
                                  # sweepRows[p].score})

(***************************************************************************)
(* UserInterestGraph (posts/models.py).  Three users; Owner is the user     *)
(* whose graph is kept.  A graph maps every user id to a weight, a weight   *)
(* of 0 standing for "no key".                                              *)
(***************************************************************************)
Users == {"u1", "u2", "u3"}
Owner == "u1"
InteractionTypes == {"LIKE", "SHARE", "SAVE"}

MaxFollows == 2
MaxInteractions == 2

\* sorted(...)[:20] and .order_by('-common_count')[:50]
TopConnections == 20
SimilarUsers == 50

EmptyGraph == [v \in Users |-> 0]

Keys(g) == {v \in Users : g[v] > 0}

\* the n keys of largest weight (all keys when there are at most n)
TopKeys(g, n) ==
    IF Cardinality(Keys(g)) <= n THEN Keys(g)
    ELSE CHOOSE S \in SUBSET Keys(g) :
            /\ Cardinality(S) = n
            /\ \A a \in S, b \in Keys(g) \ S : g[a] >= g[b]

\* 1. direct connections: +10 per followed user, +5 per follower
DirectConnections(u, fl) ==
    [v \in Users |-> (IF <<u, v>> \in fl THEN 10 ELSE 0)
                     + (IF <<v, u>> \in fl THEN 5 ELSE 0)]

\* 2. +2 for every other liker of a post the user liked
CommonLikes(u, lk) ==
    [v \in Users |-> IF u \in lk /\ v \in lk /\ v # u THEN 2 ELSE 0]

\* 3. rows of other users on the posts the user interacted with, counted per
\* user, the SimilarUsers largest counts
common_count(u, rows) ==
    [v \in Users |->
        IF v # u /\ (\E r \in rows : r[1] = u)
        THEN Cardinality({r \in rows : r[1] = v}) ELSE 0]

ContentSimilarity(u, rows) ==
    LET cc == common_count(u, rows)
    IN [v \in Users |-> IF v \in TopKeys(cc, SimilarUsers) THEN cc[v] ELSE 0]

\* 4. +1 for every user followed by one of the TopConnections top nodes
SecondDegree(u, fl, g) ==
    [v \in Users |->
        IF v = u THEN 0
        ELSE Cardinality({c \in TopKeys(g, TopConnections) : <<c, v>> \in fl})]

GraphSum(g, h) == [v \in Users |-> g[v] + h[v]]

\* the graph saved as accumulated, the user's own key left in
KeepSelf(u, g) == g

\* if str(user.id) in interest_graph: del interest_graph[str(user.id)]
RemoveSelf(u, g) == [g EXCEPT ![u] = 0]

\* the graph calculate_interest_graph saves
InterestGraphOf(u, fl, lk, rows) ==
    LET g3 == GraphSum(GraphSum(DirectConnections(u, fl), CommonLikes(u, lk)),
                       ContentSimilarity(u, rows))
    IN RemoveSelf(u, GraphSum(g3, SecondDegree(u, fl, g3)))

calculate_interest_graph ==
    /\ graph' = InterestGraphOf(Owner, following, postLikes, interactions)
    /\ suggested' = None
    /\ UNCHANGED <<following, postLikes, interactions, notGraph>>

\* UserViewSet.follow, with the m2m_changed receiver that recalculates the
\* graph of the follower
follow ==
    \E a \in Users, b \in Users :
        /\ a # b
        /\ <<a, b>> \notin following
        /\ Cardinality(following) < MaxFollows
        /\ following' = following \cup {<<a, b>>}
        /\ graph' = IF a = Owner
                    THEN InterestGraphOf(Owner, following', postLikes, interactions)
                    ELSE graph
        /\ suggested' = None
        /\ UNCHANGED <<postLikes, interactions, notGraph>>

\* UserViewSet.unfollow, with the same receiver
unfollow ==
    \E a \in Users, b \in Users :
        /\ <<a, b>> \in following
        /\ following' = following \ {<<a, b>>}
        /\ graph' = IF a = Owner
                    THEN InterestGraphOf(Owner, following', postLikes, interactions)
                    ELSE graph
        /\ suggested' = None
        /\ UNCHANGED <<postLikes, interactions, notGraph>>

MaxSuggest == 2

\* the limits a caller may pass: limit is not checked, and
\* UserViewSet.suggestions passes twice its own unchecked limit parameter
SuggestLimits == (0 - 1)..MaxSuggest

\* position of a key in the dict, for keys of equal weight
DictOrder == [v \in Users |-> CASE v = "u1" -> 1 [] v = "u2" -> 2 [] OTHER -> 3]

\* suggested_users.sort(key=lambda x: x[1], reverse=True), a stable sort
RECURSIVE SortByWeight(_, _)
SortByWeight(S, g) ==
    IF S = {} THEN <<>>
    ELSE LET m == CHOOSE x \in S : \A y \in S \ {x} :
                     \/ g[x] > g[y]
                     \/ g[x] = g[y] /\ DictOrder[x] < DictOrder[y]
         IN <<m>> \o SortByWeight(S \ {m}, g)

\* q[:k] of Python: the first k items, or all but the last -k when k < 0
UpTo(q, k) ==
    LET n == IF k >= 0 THEN (IF k < Len(q) THEN k ELSE Len(q))
             ELSE (IF Len(q) + k > 0 THEN Len(q) + k ELSE 0)
    IN SubSeq(q, 1, n)

\* the (user_id, weight) pairs of the keys in q
Pairs(q, g) == [i \in 1..Len(q) |-> <<q[i], g[q[i]]>>]

\* the list get_suggested_users(limit) returns for the stored graph g
suggested_users(g, fl, limit) ==
    LET following_ids == {v \in Users : <<Owner, v>> \in fl}
    IN Pairs(UpTo(SortByWeight(Keys(g) \ following_ids, g), limit), g)

get_suggested_users ==
    /\ graph # None
    /\ \E limit \in SuggestLimits :
          suggested' = [limit |-> limit,
                        pairs |-> suggested_users(graph, following, limit)]
    /\ UNCHANGED <<following, postLikes, interactions, graph, notGraph>>

\* Any stored follows (self-follows and mutual follows included), likers of
\* the post and interaction rows; the graph row is not computed yet.
GraphInit ==
    /\ following \in {f \in SUBSET (Users \X Users) : Cardinality(f) <= MaxFollows}
    /\ postLikes \in SUBSET Users
    /\ interactions \in {r \in SUBSET (Users \X InteractionTypes) :
                            Cardinality(r) <= MaxInteractions}
    /\ graph = None
    /\ suggested = None
    \* no trending activity
    /\ now = 0
    /\ likes = EmptyBag
    /\ comments = EmptyBag
    /\ views = EmptyBag
    /\ shares = 0
    /\ ts = None
    /\ lastCalc = None
    /\ added = 0
    \* no feed request
    /\ fAuthor = <<>>
    /\ fTrend = <<>>
    /\ viewerAuth = FALSE
    /\ igraph = <<>>
    /\ reqSection = "all"
    /\ reqLimit = 1
    /\ page = 0
    /\ resp = None
    /\ acc = <<>>
    /\ scroll = "open"
    \* no search request
    /\ qParam = <<>>
    /\ model = "Post"
    /\ cand = <<>>
    /\ results = None
    /\ wellFormed = TRUE
    \* no sweep
    /\ sweepIn = <<>>
    /\ sweepRows = <<>>
    /\ sweepResult = None
    \* no search endpoint request
    /\ cache = <<>>
    /\ listResp = None
    /\ requests = 0
    /\ signal = None
    /\ activity = <<>>
    /\ pref = None
    /\ graphUpdated = 0
    /\ access = None
    /\ procs = <<>>

GraphNext ==
    \/ calculate_interest_graph
    \/ follow
    \/ unfollow

SpecGraph == GraphInit /\ [][GraphNext]_vars

\* the same, with callers of get_suggested_users
SuggestNext ==
    \/ calculate_interest_graph
    \/ follow
    \/ unfollow
    \/ get_suggested_users

SpecSuggest == GraphInit /\ [][SuggestNext]_vars

\* C4: after calculate_interest_graph the stored graph has no key equal to
\* the user's own id, whatever the follows, followers, likes and interactions
\* (self-follows and mutual follows included).
C4_NoSelfEdge == graph # None => graph[Owner] = 0

\* the graph was calculated for a user who follows themself, and it has a key
C4_Witness ==
    /\ graph # None
    /\ <<Owner, Owner>> \in following
    /\ \E v \in Users \ {Owner} : graph[v] > 0

\* the post is one on which both u and v have a like or save interaction
SharedPost(u, v, rows) ==
    /\ \E t \in {"LIKE", "SAVE"} : <<u, t>> \in rows
    /\ \E t \in {"LIKE", "SAVE"} : <<v, t>> \in rows

\* the number of such posts, for the SimilarUsers users with the most
SharedPosts(u, rows) ==
    LET shared == [v \in Users |->
                      IF v # u /\ SharedPost(u, v, rows) THEN 1 ELSE 0]
    IN [v \in Users |-> IF v \in TopKeys(shared, SimilarUsers)
                        THEN shared[v] ELSE 0]

\* C24: after calculate_interest_graph(u) the stored weight of every other
\* user v is 10 if u follows v, plus 5 if v follows u, plus 2 for each post
\* liked by both, plus the number of posts on which both have a like or save
\* interaction (v among the 50 users with the most), plus 1 for each of the
\* 20 highest-weighted users so far that follows v; a sum of 0 is no entry.
C24_StatedWeights ==
    [][calculate_interest_graph =>
          LET so_far == GraphSum(GraphSum(DirectConnections(Owner, following),
                                          CommonLikes(Owner, postLikes)),
                                 SharedPosts(Owner, interactions))
              stated == GraphSum(so_far, SecondDegree(Owner, following, so_far))
          IN \A v \in Users \ {Owner} : graph'[v] = stated[v]]_vars

\* C17: get_suggested_users(limit) returns at most limit (user id, weight)
\* pairs, each an edge of the stored graph, in non-increasing weight order,
\* none for a user the owner currently follows, and no edge to a
\* non-followed user is left out that is heavier than a returned one.
C17_SuggestedUsers ==
    suggested # None =>
        LET out == suggested.pairs
            ids == {out[i][1] : i \in 1..Len(out)}
        IN /\ Len(out) <= suggested.limit
           /\ \A i \in 1..Len(out) :
                 /\ graph[out[i][1]] > 0
                 /\ out[i][2] = graph[out[i][1]]
                 /\ <<Owner, out[i][1]>> \notin following
           /\ \A i, j \in 1..Len(out) : i < j => out[i][2] >= out[j][2]
           /\ \A v \in Keys(graph) \ ids :
                 <<Owner, v>> \notin following =>
                     \A i \in 1..Len(out) : graph[v] <= out[i][2]

(***************************************************************************)
(* PostViewSet.feed and _get_section_posts (posts/views.py), over a fixed   *)
(* snapshot of three posts without likes or comments.  The viewer "me"      *)
(* follows "f" and has default content preferences; "s" is a stranger.      *)
(***************************************************************************)
FeedPosts == {"p1", "p2", "p3"}
Authors == {"me", "f", "s"}
Followed == {"f"}
SectionNames == {"following", "recommended", "trending", "discover"}
AllSections == <<"following", "recommended", "trending", "discover">>
AnonSections == <<"trending", "discover">>

MaxTrend == 2
MaxLimit == 1
MaxPage == 4

\* the [:10] of the last-resort query
FallbackLimit == 10

\* now - created_at in hours; all created_at differ
Age(p) == CASE p = "p1" -> 12 [] p = "p2" -> 36 [] OTHER -> 400

likes_count(p) == 0
comments_count(p) == 0

Min(a, b) == IF a < b THEN a ELSE b

\* qs[offset:offset + limit]
Slice(q, offset, limit) ==
    IF offset >= Len(q) THEN <<>>
    ELSE SubSeq(q, offset + 1, Min(offset + limit, Len(q)))

Range(q) == {q[i] : i \in 1..Len(q)}

\* the possible orders of rows the ORDER BY leaves tied
TieBreaks == {f \in [FeedPosts -> 1..Cardinality(FeedPosts)] :
                 \A a, b \in FeedPosts : a # b => f[a] # f[b]}

\* ORDER BY key DESC, tie ASC
RECURSIVE OrderBy(_, _, _)
OrderBy(S, key, tie) ==
    IF S = {} THEN <<>>
    ELSE LET m == CHOOSE x \in S : \A y \in S :
                     \/ key[x] > key[y]
                     \/ key[x] = key[y] /\ tie[x] <= tie[y]
         IN <<m>> \o OrderBy(S \ {m}, key, tie)

\* '-created_at' as the tie order
ByCreatedDesc == [p \in FeedPosts |-> Age(p)]

base_score(p) == likes_count(p) * 1 + comments_count(p) * 2

following_recency(p) ==
    IF Age(p) <= 24 THEN 20 ELSE IF Age(p) <= 48 THEN 15
    ELSE IF Age(p) <= 168 THEN 10 ELSE IF Age(p) <= 720 THEN 5 ELSE 1

recommended_recency(p) ==
    IF Age(p) <= 24 THEN 15 ELSE IF Age(p) <= 48 THEN 10
    ELSE IF Age(p) <= 168 THEN 5 ELSE 1

\* tenths
discover_recency(p) ==
    IF Age(p) <= 168 THEN 7 ELSE IF Age(p) <= 720 THEN 5 ELSE 3

\* 100 * final_score of the following section; the personalization score is
\* the default 0.5 * (50 / 50.0)
following_score(p) ==
    30 * base_score(p) + 40 * following_recency(p) + 20 * (2 * fTrend[p]) + 5

\* 100 * 0.5 * interest_score: (1 - i/len) * 10 for the i-th graph user,
\* 0.1 for any other author
interest_boost(p) ==
    IF \E i \in 1..Len(igraph) : igraph[i] = fAuthor[p]
    THEN LET i == CHOOSE j \in 1..Len(igraph) : igraph[j] = fAuthor[p]
         IN (500 * (Len(igraph) - (i - 1))) \div Len(igraph)
    ELSE 5

\* 100 * final_score of the recommended section
recommended_score(p) ==
    20 * base_score(p) + 20 * recommended_recency(p) + interest_boost(p)
        + 10 * (2 * fTrend[p])

\* posts with a positive trending score, by score then created_at
TrendingOrder(S) ==
    OrderBy({p \in S : fTrend[p] > 0}, fTrend, ByCreatedDesc)

\* the ordered candidates of a section, the seen posts excluded
SectionQueryset(section, seen, tie) ==
    LET qs == FeedPosts \ seen
    IN CASE section = "following" ->
              OrderBy({p \in qs : fAuthor[p] \in Followed},
                      [p \in FeedPosts |-> following_score(p)], ByCreatedDesc)
         [] section = "recommended" ->
              IF igraph # <<>>
              THEN OrderBy({p \in qs : fAuthor[p] # "me"},
                           [p \in FeedPosts |-> recommended_score(p)],
                           ByCreatedDesc)
              ELSE OrderBy({p \in qs : fAuthor[p] # "me"}, fTrend, ByCreatedDesc)
         [] section = "trending" -> TrendingOrder(qs)
         [] section = "discover" ->
              OrderBy(IF viewerAuth
                      THEN {p \in qs : fAuthor[p] \notin Followed} ELSE qs,
                      [p \in FeedPosts |-> discover_recency(p)], tie)
         [] OTHER -> <<>>

\* _get_section_posts with seen_post_ids ignored
get_section_posts_no_exclude(section, limit, offset, seen, tie) ==
    IF section \in {"following", "recommended"} /\ ~viewerAuth
    THEN [posts |-> <<>>, has_more |-> FALSE, total_count |-> 0]
    ELSE LET qs == SectionQueryset(section, {}, tie)
         IN [posts |-> Slice(qs, offset, limit),
             has_more |-> Len(qs) > offset + limit, total_count |-> Len(qs)]

\* _get_section_posts: (list(section_queryset[offset:offset+limit]), has_more);
\* total_count is its local of that name
_get_section_posts(section, limit, offset, seen, tie) ==
    IF section \in {"following", "recommended"} /\ ~viewerAuth
    THEN [posts |-> <<>>, has_more |-> FALSE, total_count |-> 0]
    ELSE LET qs == SectionQueryset(section, seen, tie)
         IN [posts |-> Slice(qs, offset, limit),
             has_more |-> Len(qs) > offset + limit, total_count |-> Len(qs)]

sections_to_include(section, auth) ==
    IF section = "all" THEN (IF auth THEN AllSections ELSE AnonSections)
    ELSE <<section>>

NoSections == [n \in SectionNames \cup {"fallback"} |-> <<>>]

\* the sections the loop computes (those not skipped for an anonymous viewer)
Computed(secs) ==
    {secs[i] : i \in {j \in 1..Len(secs) :
                        viewerAuth \/ secs[j] \notin {"following", "recommended"}}}

\* The loop over sections_to_include from position i on; a section in omit
\* is passed over.  out is result_data['data'].
RECURSIVE SectionLoop(_, _, _, _, _, _, _, _)
SectionLoop(secs, i, limit, offset, seen, out, omit, tie) ==
    IF i > Len(secs) THEN out
    ELSE IF secs[i] \in omit
              \/ (~viewerAuth /\ secs[i] \in {"following", "recommended"})
    THEN SectionLoop(secs, i + 1, limit, offset, seen, out, omit, tie)
    ELSE LET r == _get_section_posts(secs[i], limit, offset, seen, tie)
             called == [out EXCEPT
                          !.section_has_more[secs[i]] = r.has_more,
                          !.section_total[secs[i]] = r.total_count,
                          !.computed = @ \cup {secs[i]}]
         IN IF r.posts # <<>>
            THEN SectionLoop(secs, i + 1, limit, offset,
                     seen \cup Range(r.posts),
                     [called EXCEPT
                        !.sections[secs[i]] = r.posts,
                        !.sections_included = Append(@, secs[i]),
                        !.has_more = @ \/ r.has_more],
                     omit, tie)
            ELSE SectionLoop(secs, i + 1, limit, offset, seen, called, omit, tie)

\* The response of the sectioned assembly for page pg and limit_per_section
\* limit.  section_has_more and computed are not part of the response: they
\* keep the has_more that _get_section_posts returned, and the total_count
\* it counted, for each section it was called for.
AssemblyWith(pg, limit, omit, tie) ==
    SectionLoop(sections_to_include(reqSection, viewerAuth), 1, limit,
                (pg - 1) * limit, {},
                [success |-> TRUE, status |-> 200, sections |-> NoSections,
                 has_more |-> FALSE, current_page |-> pg,
                 sections_included |-> <<>>,
                 section_has_more |-> [n \in SectionNames |-> FALSE],
                 section_total |-> [n \in SectionNames |-> 0],
                 computed |-> {}],
                omit, tie)

\* the response of the sectioned assembly for the limit of the scrolling client
Assembly(pg, omit, tie) == AssemblyWith(pg, reqLimit, omit, tie)

\* the "ultimate fallback": the most recent posts as one 'fallback' section
Fallback ==
    LET recent == Slice(OrderBy(FeedPosts, [p \in FeedPosts |-> 0], ByCreatedDesc),
                        0, FallbackLimit)
    IN [success |-> TRUE, status |-> 200,
        sections |-> [NoSections EXCEPT !["fallback"] = recent],
        has_more |-> Len(recent) > 0, current_page |-> 1,
        sections_included |-> <<"fallback">>,
        section_has_more |-> [n \in SectionNames |-> FALSE],
     section_total |-> [n \in SectionNames |-> 0], computed |-> {}]

ErrorResponse ==
    [success |-> FALSE, status |-> 400, sections |-> NoSections,
     has_more |-> FALSE, current_page |-> 0, sections_included |-> <<>>,
     section_has_more |-> [n \in SectionNames |-> FALSE],
     section_total |-> [n \in SectionNames |-> 0], computed |-> {}]

\* a query-string value as int() reads it: an integer, or text that makes
\* int() raise ValueError
IntText(v) == [ok |-> TRUE, v |-> v]
NotAnInt == [ok |-> FALSE, v |-> 0]

\* min(int(limit), 50)
SectionLimitCap == 50

\* the page and limit parameters a request may carry: those of the scrolling
\* client, or one of them malformed
ParamCases ==
    {"ok", "page_not_int", "page_zero", "limit_not_int", "limit_zero",
     "limit_negative"}

page_param(mal, pg) ==
    CASE mal = "page_not_int" -> NotAnInt
      [] mal = "page_zero" -> IntText(0)
      [] OTHER -> IntText(pg)

limit_param(mal) ==
    CASE mal = "limit_not_int" -> NotAnInt
      [] mal = "limit_zero" -> IntText(0)
      [] mal = "limit_negative" -> IntText(0 - 1)
      [] OTHER -> IntText(reqLimit)

\* Whether the try block of feed() raises: int() on a parameter, the query
\* of section bad, or the slice [offset:offset + limit] of a section's
\* queryset with a negative start or stop.
AssemblyRaises(rawPage, rawLimit, bad) ==
    \/ ~ rawPage.ok
    \/ ~ rawLimit.ok
    \/ LET limit == Min(rawLimit.v, SectionLimitCap)
           offset == (rawPage.v - 1) * limit
           computed == Computed(sections_to_include(reqSection, viewerAuth))
       IN /\ computed # {}
          /\ (bad \in computed \/ offset < 0 \/ offset + limit < 0)

\* What the handler has done by the time it answers: get_or_create_for_user
\* of the preference and interest-graph rows, the queries of the sections,
\* the query of the last-resort fallback.
feed_steps(rawPage, rawLimit, bad) ==
    LET parsed == rawPage.ok /\ rawLimit.ok
    IN (IF parsed /\ viewerAuth THEN {"derived_records"} ELSE {})
         \cup (IF parsed /\ Computed(sections_to_include(reqSection,
                                                         viewerAuth)) # {}
               THEN {"section_query"} ELSE {})
         \cup (IF AssemblyRaises(rawPage, rawLimit, bad)
               THEN {"fallback_query"} ELSE {})

\* feed() with the except branch answering with the error response at once
feed_response_error_only(rawPage, rawLimit, bad, fb, tie) ==
    IF AssemblyRaises(rawPage, rawLimit, bad) THEN ErrorResponse
    ELSE AssemblyWith(rawPage.v, Min(rawLimit.v, SectionLimitCap), {}, tie)

\* The whole handler: the sectioned assembly; when it raises, the fallback;
\* when the fallback query raises too (fb), the error response.
feed_response(rawPage, rawLimit, bad, fb, tie) ==
    IF AssemblyRaises(rawPage, rawLimit, bad)
    THEN (IF ~ fb THEN Fallback ELSE ErrorResponse)
    ELSE AssemblyWith(rawPage.v, Min(rawLimit.v, SectionLimitCap), {}, tie)

\* The whole handler for page pg of the scrolling client when the query of
\* section bad raises (bad = "none": no query raises) and the fallback query
\* raises iff fb.
FeedResponse(pg, bad, fb, tie) ==
    feed_response(IntText(pg), IntText(reqLimit), bad, fb, tie)

\* One request of the client: the next page with the same section and limit,
\* or, from a client that does not check its parameters, one whose page or
\* limit is malformed, after which the client stops.
feed ==
    /\ scroll = "open"
    /\ page < MaxPage
    /\ \E bad \in SectionNames \cup {"none"} :
         LET computed == Computed(sections_to_include(reqSection, viewerAuth))
             raised == IF bad \in computed THEN bad ELSE "none"
         IN \E mal \in IF raised = "none" /\ ~ wellFormed THEN ParamCases
                        ELSE {"ok"} :
              LET rawPage == page_param(mal, page + 1)
                  rawLimit == limit_param(mal)
                  raises == AssemblyRaises(rawPage, rawLimit, bad)
              IN \E fb \in IF raises THEN BOOLEAN ELSE {FALSE},
                    tie \in IF ~ raises /\ "discover" \in computed
                            THEN TieBreaks ELSE {ByCreatedDesc} :
                   LET r == feed_response(rawPage, rawLimit, bad, fb, tie)
                   IN /\ resp' = [success |-> r.success, status |-> r.status,
                                  sections |-> r.sections,
                                  has_more |-> r.has_more,
                                  current_page |-> r.current_page,
                                  sections_included |-> r.sections_included,
                                  raised |-> raised,
                                  params |-> mal,
                                  assembly_raised |-> raises,
                                  fallback_raised |-> fb,
                                  steps |-> feed_steps(rawPage, rawLimit, bad),
                                  computed |-> r.computed,
                                  section_has_more |-> r.section_has_more,
                                  section_total |-> r.section_total,
                                  limit |-> IF rawLimit.ok
                                            THEN Min(rawLimit.v, SectionLimitCap)
                                            ELSE 0]
                      /\ acc' = acc \o r.sections["trending"]
                      /\ scroll' = IF mal # "ok" THEN "rejected"
                                   ELSE IF raised # "none" THEN "failed"
                                   ELSE IF r.sections["trending"] = <<>>
                                        THEN "ended"
                                   ELSE "open"
    /\ page' = page + 1
    /\ UNCHANGED <<fAuthor, fTrend, viewerAuth, igraph, reqSection, reqLimit,
                   wellFormed, notFeed>>

FeedInit ==
    /\ fAuthor \in [FeedPosts -> Authors]
    /\ fTrend \in [FeedPosts -> 0..MaxTrend]
    /\ viewerAuth \in BOOLEAN
    /\ igraph \in IF viewerAuth THEN {<<>>, <<"s", "f">>} ELSE {<<>>}
    /\ reqSection \in SectionNames \cup {"all"}
    /\ reqLimit \in 1..MaxLimit
    /\ page = 0
    /\ resp = None
    /\ acc = <<>>
    /\ scroll = "open"
    /\ wellFormed = TRUE
    \* no trending activity
    /\ now = 0
    /\ likes = EmptyBag
    /\ comments = EmptyBag
    /\ views = EmptyBag
    /\ shares = 0
    /\ ts = None
    /\ lastCalc = None
    /\ added = 0
    \* no interest graph
    /\ following = {}
    /\ postLikes = {}
    /\ interactions = {}
    /\ graph = None
    \* no search request
    /\ qParam = <<>>
    /\ model = "Post"
    /\ cand = <<>>
    /\ results = None
    /\ suggested = None
    \* no sweep
    /\ sweepIn = <<>>
    /\ sweepRows = <<>>
    /\ sweepResult = None
    \* no search endpoint request
    /\ cache = <<>>
    /\ listResp = None
    /\ requests = 0
    /\ signal = None
    /\ activity = <<>>
    /\ pref = None
    /\ graphUpdated = 0
    /\ access = None
    /\ procs = <<>>

FeedNext == feed

SpecFeed == FeedInit /\ [][FeedNext]_vars

\* A client that does not check its page and limit parameters, over the
\* snapshots in which every post is by a followed author or by a stranger and
\* has either no trending score or the largest one.
RequestInit ==
    /\ fAuthor \in [FeedPosts -> {"f", "s"}]
    /\ fTrend \in [FeedPosts -> {0, MaxTrend}]
    /\ viewerAuth \in BOOLEAN
    /\ igraph \in IF viewerAuth THEN {<<>>, <<"s", "f">>, <<"f">>} ELSE {<<>>}
    /\ reqSection \in SectionNames \cup {"all"}
    /\ reqLimit \in 1..MaxLimit
    /\ page = 0
    /\ resp = None
    /\ acc = <<>>
    /\ scroll = "open"
    /\ wellFormed = FALSE
    \* no trending activity
    /\ now = 0
    /\ likes = EmptyBag
    /\ comments = EmptyBag
    /\ views = EmptyBag
    /\ shares = 0
    /\ ts = None
    /\ lastCalc = None
    /\ added = 0
    \* no interest graph
    /\ following = {}
    /\ postLikes = {}
    /\ interactions = {}
    /\ graph = None
    /\ suggested = None
    \* no search request
    /\ qParam = <<>>
    /\ model = "Post"
    /\ cand = <<>>
    /\ results = None
    \* no sweep
    /\ sweepIn = <<>>
    /\ sweepRows = <<>>
    /\ sweepResult = None
    \* no search endpoint request
    /\ cache = <<>>
    /\ listResp = None
    /\ requests = 0
    /\ signal = None
    /\ activity = <<>>
    /\ pref = None
    /\ graphUpdated = 0
    /\ access = None
    /\ procs = <<>>

RequestNext == feed

SpecRequest == RequestInit /\ [][RequestNext]_vars

(***************************************************************************)
(* Properties of the feed.                                                 *)
(***************************************************************************)
\* C1: in a response of the sectioned assembly no post id appears in more
\* than one entry of data.sections.
C1_NoDuplicateAcrossSections ==
    resp # None /\ resp.raised = "none" =>
        \A a, b \in SectionNames :
            a # b => Range(resp.sections[a]) \cap Range(resp.sections[b]) = {}

\* a response with both a following and a trending section, whose following
\* post has a positive trending score and would lead the trending order
C1_Witness ==
    /\ resp # None
    /\ resp.raised = "none"
    /\ resp.sections["following"] # <<>>
    /\ resp.sections["trending"] # <<>>
    /\ \E p \in Range(resp.sections["following"]) :
          \A q \in Range(resp.sections["trending"]) : fTrend[p] > fTrend[q]

\* C2: the trending sections of pages 1, 2, 3, ... up to the first page
\* without one, concatenated, are exactly the posts with a positive trending
\* score in (score, created_at) descending order, for section='trending' and
\* for section='all'.
C2_PagesCoverTrending ==
    scroll = "ended" /\ reqSection \in {"trending", "all"} =>
        acc = TrendingOrder(FeedPosts)

\* The sectioned assembly with every section in its own try/except: the
\* section that raises is passed over, the others are computed as usual.
Isolated(pg, bad, tie) == Assembly(pg, {bad}, tie)

\* C10: when one section of a section='all' request raises, the response is
\* still the sectioned one (success, no 'fallback' section), the failing
\* section is missing from it and every other applicable section that has
\* posts is in it.
C10_SectionFailureIsolated ==
    resp # None /\ reqSection = "all" /\ resp.raised # "none" =>
        /\ resp.success
        /\ resp.sections["fallback"] = <<>>
        /\ resp.sections[resp.raised] = <<>>
        /\ \E tie \in TieBreaks :
              LET r == Isolated(resp.current_page, resp.raised, tie)
              IN /\ resp.sections = r.sections
                 /\ resp.sections_included = r.sections_included

\* C11: the handler always answers, by a three-step chain: when the
\* sectioned assembly does not raise, the assembled sections are returned
\* and the fallback query is never run; when it raises, the answer is
\* success=true with the single section 'fallback' of at most 10 posts; only
\* when the fallback raises too is the answer the error response
\* (success=false).
C11_FallbackChain ==
    resp # None =>
        /\ resp.status \in {200, 400}
        /\ (~ resp.assembly_raised =>
               /\ resp.success
               /\ "fallback_query" \notin resp.steps
               /\ resp.sections["fallback"] = <<>>
               /\ \A i \in 1..Len(resp.sections_included) :
                     resp.sections_included[i] # "fallback")
        /\ (resp.assembly_raised /\ ~ resp.fallback_raised =>
               /\ resp.success
               /\ resp.sections_included = <<"fallback">>
               /\ \A n \in SectionNames : resp.sections[n] = <<>>
               /\ Len(resp.sections["fallback"]) <= FallbackLimit)
        /\ (resp.assembly_raised /\ resp.fallback_raised => ~ resp.success)
        /\ (~ resp.success => resp.assembly_raised /\ resp.fallback_raised)

\* the query of a section raised and the answer is the fallback section
C11_Witness ==
    /\ resp # None
    /\ resp.raised # "none"
    /\ resp.assembly_raised
    /\ ~ resp.fallback_raised
    /\ resp.success
    /\ resp.sections["fallback"] # <<>>

\* C12: a request whose page or limit is not an integer, zero or negative is
\* answered with a client error (success=false, status 4xx), and neither a
\* derived-record write nor any query for posts happens for it.
C12_MalformedRejected ==
    resp # None /\ resp.params # "ok" =>
        /\ ~ resp.success
        /\ resp.status \in 400..499
        /\ resp.steps = {}

\* sorted(interest_graph.items(), ...)[:50]
InterestTop == 50

\* q is in (trending score, created_at) descending order
InTrendingOrder(q) ==
    \A i, j \in 1..Len(q) :
        i < j => \/ fTrend[q[i]] > fTrend[q[j]]
                 \/ fTrend[q[i]] = fTrend[q[j]] /\ Age(q[i]) < Age(q[j])

\* C18: when the viewer's interest graph is non-empty, every post of the
\* recommended section is by one of the 50 highest-weighted users of the
\* graph; when it is empty, the section is in trending-score descending,
\* then created_at descending order.
C18_RecommendedFromGraph ==
    resp # None /\ ~ resp.assembly_raised =>
        IF igraph # <<>>
        THEN \A p \in Range(resp.sections["recommended"]) :
                fAuthor[p] \in Range(Slice(igraph, 0, InterestTop))
        ELSE InTrendingOrder(resp.sections["recommended"])

\* C19: every computed section's has_more is total > (page-1)*limit + limit,
\* metadata.has_more is true exactly when some computed section's has_more
\* is, and sections_included lists exactly the sections in data.sections.
C19_HasMore ==
    resp # None /\ ~ resp.assembly_raised =>
        /\ \A n \in resp.computed :
              resp.section_has_more[n] =
                  (resp.section_total[n]
                      > (resp.current_page - 1) * resp.limit + resp.limit)
        /\ resp.has_more = (\E n \in resp.computed : resp.section_has_more[n])
        /\ Range(resp.sections_included)
              = {n \in SectionNames : resp.sections[n] # <<>>}
        /\ Len(resp.sections_included)
              = Cardinality(Range(resp.sections_included))

(***************************************************************************)
(* Search (search/views.py).  A string over the alphabet a, A, z and the   *)
(* space is kept as the sequence of its runs: <<[ch |-> "a", n |-> 3],     *)
(* [ch |-> "z", n |-> 1]>> is "aaaz"; adjacent runs differ in ch and no    *)
(* run is empty, so equal strings are equal sequences.  Scores are in      *)
(* hundredths.                                                             *)
(***************************************************************************)
Candidates == {"c1", "c2"}

\* simple_search truncates the query to this many characters
QueryLimit == 100
\* the [:40] of the advanced searches, and the limit list() passes on
SearchCap == 40
\* the [:10] of the trending fallback of _search_posts
TrendingFallbackLimit == 10

Run(ch, n) == [ch |-> ch, n |-> n]

\* the string of n times the character c
Rep(c, n) == IF n = 0 THEN <<>> ELSE <<Run(c, n)>>

\* joins adjacent runs of the same character
RECURSIVE Runs(_)
Runs(s) ==
    IF Len(s) < 2 THEN s
    ELSE IF s[1].ch = s[2].ch
         THEN Runs(<<Run(s[1].ch, s[1].n + s[2].n)>> \o Tail(Tail(s)))
         ELSE <<s[1]>> \o Runs(Tail(s))

\* a + b
Concat(a, b) == Runs(a \o b)

\* len(s)
RECURSIVE StrLen(_)
StrLen(s) == IF s = <<>> THEN 0 ELSE s[1].n + StrLen(Tail(s))

\* the characters of s, one by one
RECURSIVE Chars(_)
Chars(s) ==
    IF s = <<>> THEN <<>>
    ELSE [i \in 1..s[1].n |-> s[1].ch] \o Chars(Tail(s))

\* str.lower()
Lower(s) ==
    Runs([i \in 1..Len(s) |->
             Run(IF s[i].ch = "A" THEN "a" ELSE s[i].ch, s[i].n)])

\* str.strip()
Strip(s) ==
    LET l == IF s # <<>> /\ s[1].ch = " " THEN Tail(s) ELSE s
    IN IF l # <<>> /\ l[Len(l)].ch = " " THEN SubSeq(l, 1, Len(l) - 1) ELSE l

\* s[:k]
RECURSIVE Take(_, _)
Take(s, k) ==
    IF s = <<>> \/ k = 0 THEN <<>>
    ELSE IF s[1].n >= k THEN <<Run(s[1].ch, k)>>
    ELSE <<s[1]>> \o Take(Tail(s), k - s[1].n)

\* query[:100] when len(query) > 100
Truncate(s) == IF StrLen(s) > QueryLimit THEN Take(s, QueryLimit) ELSE s

\* b.startswith(a)
StartsWith(b, a) ==
    LET k == Len(a)
    IN \/ k = 0
       \/ /\ k <= Len(b)
          /\ \A m \in 1..(k - 1) : b[m] = a[m]
          /\ b[k].ch = a[k].ch
          /\ b[k].n >= a[k].n

\* b.endswith(a)
EndsWith(b, a) ==
    LET k == Len(a)
        o == Len(b) - Len(a)
    IN \/ k = 0
       \/ /\ k <= Len(b)
          /\ \A m \in 2..k : b[o + m] = a[m]
          /\ b[o + 1].ch = a[1].ch
          /\ b[o + 1].n >= a[1].n

\* a in b
In(a, b) ==
    LET k == Len(a)
    IN \/ k = 0
       \/ k = 1 /\ \E i \in 1..Len(b) : b[i].ch = a[1].ch /\ b[i].n >= a[1].n
       \/ /\ k > 1
          /\ \E o \in 0..(Len(b) - k) :
                /\ b[o + 1].ch = a[1].ch
                /\ b[o + 1].n >= a[1].n
                /\ \A m \in 2..(k - 1) : b[o + m] = a[m]
                /\ b[o + k].ch = a[k].ch
                /\ b[o + k].n >= a[k].n

\* the lookups field__iexact, __icontains, __istartswith, __iendswith
iexact(field, s) == Lower(field) = Lower(s)
icontains(field, s) == In(Lower(s), Lower(field))
istartswith(field, s) == StartsWith(Lower(field), Lower(s))
iendswith(field, s) == EndsWith(Lower(field), Lower(s))

\* the stored fields of a candidate: title and description of a post,
\* username and first_name of a user (last_name, email and bio are empty)
name(c) == cand[c].name
other(c) == cand[c].other

\* created_at of a post, date_joined of a user, as a rank: c1 is the newer
Newest == [c \in Candidates |-> IF c = "c1" THEN 1 ELSE 2]

\* the orders in which the database may return rows an ORDER BY leaves tied
RowOrders == {f \in [Candidates -> 1..Cardinality(Candidates)] :
                 \A a, b \in Candidates : a # b => f[a] # f[b]}

Flat == [c \in Candidates |-> 0]

Max(a, b) == IF a > b THEN a ELSE b

(***************************************************************************)
(* simple_search                                                           *)
(***************************************************************************)
\* jellyfish.levenshtein_distance of a[1..i] and b[1..j]
RECURSIVE Levenshtein(_, _, _, _)
Levenshtein(a, b, i, j) ==
    IF i = 0 THEN j
    ELSE IF j = 0 THEN i
    ELSE LET del == Levenshtein(a, b, i - 1, j) + 1
             ins == Levenshtein(a, b, i, j - 1) + 1
             sub == Levenshtein(a, b, i - 1, j - 1)
                      + (IF a[i] = b[j] THEN 0 ELSE 1)
         IN Min(del, Min(ins, sub))

\* a similarity is the fraction n/d
Sim(n, d) == [n |-> n, d |-> d]
SimLeq(x, y) == x.n * y.d <= y.n * x.d
SimMax(x, y) == IF SimLeq(x, y) THEN y ELSE x

\* the fields whose similarity to the query is decided by edit distance
\* and phonetic code
Fuzzy(s, field) ==
    /\ field # <<>>
    /\ Lower(s) # Lower(field)
    /\ ~ In(Lower(s), Lower(field))
    /\ ~ In(Lower(field), Lower(s))

\* get_string_similarity(str1, str2); sounds: the metaphone codes are equal
get_string_similarity(str1, str2, sounds) ==
    IF str1 = <<>> \/ str2 = <<>> THEN Sim(0, 1)
    ELSE LET a == Lower(str1)
             b == Lower(str2)
             m == Max(StrLen(a), StrLen(b))
             lev_score == Sim(m - Levenshtein(Chars(a), Chars(b),
                                              StrLen(a), StrLen(b)), m)
         IN IF a = b THEN Sim(1, 1)
            ELSE IF In(a, b) \/ In(b, a) THEN Sim(4, 5)
            ELSE IF sounds THEN SimMax(Sim(7, 10), lev_score)
            ELSE lev_score

\* max_score of one scanned row; meta: the (row, field) pairs whose
\* metaphone code equals the query's
max_score(s, c, meta) ==
    SimMax(IF name(c) # <<>>
           THEN get_string_similarity(s, name(c), <<c, "name">> \in meta)
           ELSE Sim(0, 1),
           IF other(c) # <<>>
           THEN get_string_similarity(s, other(c), <<c, "other">> \in meta)
           ELSE Sim(0, 1))

\* similar_matches.sort(key=score, reverse=True): a stable sort of rows
\* that arrive newest first
RECURSIVE SortBySimilarity(_, _, _)
SortBySimilarity(S, s, meta) ==
    IF S = {} THEN <<>>
    ELSE LET m == CHOOSE x \in S : \A y \in S :
                     LET sx == max_score(s, x, meta)
                         sy == max_score(s, y, meta)
                     IN \/ ~ SimLeq(sx, sy)
                        \/ SimLeq(sy, sx) /\ Newest[x] <= Newest[y]
         IN <<m>> \o SortBySimilarity(S \ {m}, s, meta)

\* the query simple_search matches against: query.lower().strip()[:100]
simple_query(s) == Truncate(Strip(Lower(s)))

\* simple_search(query, model, fields, limit); rows: the order of a
\* queryset without order_by (Post.Meta.ordering is -created_at)
simple_search(s, mdl, limit, rows, meta) ==
    LET query == simple_query(s)
        default == IF mdl = "Post" THEN Newest ELSE rows
        exact == {c \in Candidates :
                     iexact(name(c), query) \/ iexact(other(c), query)}
        exact_matches == Slice(OrderBy(exact, Flat, default), 0, limit)
        remaining == limit - Len(exact_matches)
        partial == {c \in Candidates \ Range(exact_matches) :
                       icontains(name(c), query) \/ icontains(other(c), query)}
        partial_matches == Slice(OrderBy(partial, Flat, default), 0, remaining)
        all_matches == exact_matches \o partial_matches
        remaining_needed == limit - Len(all_matches)
        potential_matches == Candidates \ Range(all_matches)
        similar == {c \in potential_matches :
                       LET sc == max_score(query, c, meta)
                       IN 5 * sc.n > 3 * sc.d}
        similar_matches == SortBySimilarity(similar, query, meta)
    IN IF Len(exact_matches) >= limit THEN exact_matches
       ELSE IF Len(all_matches) < limit
            THEN Slice(all_matches \o Slice(similar_matches, 0, remaining_needed),
                       0, limit)
            ELSE Slice(all_matches, 0, limit)

(***************************************************************************)
(* The advanced searches.  sig gives, per candidate, what PostgreSQL       *)
(* computes: the trigram similarity of each field and the full-text rank,  *)
(* in tenths.                                                              *)
(***************************************************************************)
\* preprocess_query(query)['original_tokens'] of a query of one word
original_tokens(s) == IF StrLen(s) > 1 THEN <<Lower(s)>> ELSE <<>>

\* _normalize_query of a query without punctuation or repeated spaces
_normalize_query(s) == Lower(Strip(s))

\* the comprehensions *[When(field__lookup=term, ...) for term in query_terms]
AnyStarts(field, terms) == \E i \in 1..Len(terms) : istartswith(field, terms[i])
AnyContains(field, terms) == \E i \in 1..Len(terms) : icontains(field, terms[i])
AnyEnds(field, terms) == \E i \in 1..Len(terms) : iendswith(field, terms[i])

\* TrigramSimilarity(field, query): 1 for equal strings, else as given
trigram(field, s, given) ==
    IF field = <<>> THEN 0 ELSE IF iexact(field, s) THEN 10 ELSE given

\* the part of a user's relevance that the strings decide: exact_match,
\* starts_with_score, contains_score, phonetic_score
user_lexical(c, s) ==
    LET terms == original_tokens(s)
        exact_match ==
            IF iexact(name(c), s) THEN 300
            ELSE IF iexact(other(c), s) THEN 250
            ELSE 0
        starts_with_score ==
            IF istartswith(name(c), s) THEN 220
            ELSE IF istartswith(other(c), s) THEN 180
            ELSE IF AnyStarts(name(c), terms) THEN 150
            ELSE IF AnyStarts(other(c), terms) THEN 130
            ELSE 0
        contains_score ==
            IF icontains(name(c), s) THEN 120
            ELSE IF icontains(other(c), s) THEN 100
            ELSE IF AnyContains(name(c), terms) THEN 80
            ELSE IF AnyContains(other(c), terms) THEN 70
            ELSE 0
        phonetic_score ==
            IF AnyEnds(name(c), terms) THEN 70
            ELSE IF AnyEnds(other(c), terms) THEN 60
            ELSE 0
    IN Max(Max(exact_match, starts_with_score),
           Max(contains_score, phonetic_score))

\* relevance = Greatest(exact_match, starts_with_score, contains_score,
\*                      similarity, phonetic_score, search_rank * 1.5)
user_relevance(c, s, lexical, sig) ==
    LET similarity == Max(trigram(name(c), s, sig[c].name) * 6,
                          trigram(other(c), s, sig[c].other) * 5)
    IN Max(lexical[c], Max(similarity, sig[c].rank * 15))

\* the sort key of order_by('-is_followed', '-relevance', ...)
user_key(c, relevance) ==
    (IF cand[c].followed THEN 1000 ELSE 0) + relevance

\* the user whose row a candidate is when the candidates are users: c1 is
\* the user with id 1, c2 the user with id 2
RowUser == [c \in Candidates |-> IF c = "c1" THEN Rep("1", 1) ELSE Rep("2", 1)]

\* _search_users(query) of the user with id user_id when the ORM accepts
\* the query: User.objects.exclude(id=self.request.user.id), annotated,
\* filtered and ordered; popularity and activity_score are equal for all
\* candidates, rows orders the ties
search_users_ranked(s, lexical, sig, rows, user_id) ==
    LET relevance == [c \in Candidates |-> user_relevance(c, s, lexical, sig)]
        filtered == {c \in Candidates :
                        /\ RowUser[c] # user_id
                        /\ \/ relevance[c] > 1
                           \/ sig[c].rank * 10 > 1
                           \/ icontains(name(c), _normalize_query(s))
                           \/ icontains(other(c), _normalize_query(s))}
        key == [c \in Candidates |-> user_key(c, relevance[c])]
    IN Slice(OrderBy(filtered, key, rows), 0, SearchCap)

\* the fields and reverse relations of Post that an F() can name
PostFields ==
    {"id", "author", "type", "title", "description", "image", "audio_file",
     "created_at", "updated_at", "likes", "tags", "comments", "interactions",
     "trending_score", "views"}

\* F(field) in an annotation of a Post queryset raises FieldError unless the
\* field exists
Resolves(field) == field \in PostFields

\* the part of a post's relevance that the strings decide
post_lexical(c, s) ==
    LET terms == original_tokens(s)
        exact_match ==
            IF iexact(name(c), s) THEN 300
            ELSE IF iexact(other(c), s) THEN 200
            ELSE 0
        starts_with_score ==
            IF istartswith(name(c), s) THEN 200
            ELSE IF istartswith(other(c), s) THEN 150
            ELSE IF AnyStarts(name(c), terms) THEN 150
            ELSE IF AnyStarts(other(c), terms) THEN 100
            ELSE 0
        contains_score ==
            IF icontains(name(c), s) THEN 150
            ELSE IF icontains(other(c), s) THEN 100
            ELSE IF AnyContains(name(c), terms) THEN 100
            ELSE IF AnyContains(other(c), terms) THEN 70
            ELSE 0
        phonetic_score ==
            IF AnyEnds(name(c), terms) THEN 70
            ELSE IF AnyEnds(other(c), terms) THEN 60
            ELSE 0
    IN Max(Max(exact_match, starts_with_score),
           Max(contains_score, phonetic_score))

post_relevance(c, s, lexical, sig) ==
    LET similarity == Max(trigram(name(c), s, sig[c].name) * 15,
                          trigram(other(c), s, sig[c].other) * 10)
    IN Max(lexical[c], Max(similarity, sig[c].rank * 15))

\* _prepare_post_queryset: annotates F('view_count'), F('like_count') and
\* F('comment_count'); the result is the queryset, or None when it raises
_prepare_post_queryset(rows) ==
    IF Resolves("view_count") /\ Resolves("like_count")
       /\ Resolves("comment_count")
    THEN rows ELSE None

\* now - created_at of a post, in days: c1 is the newer
DaysOld == [c \in Candidates |-> IF c = "c1" THEN 0 ELSE 10]

\* the recency_boost annotation, in hundredths
recency_boost(c) ==
    IF DaysOld[c] <= 7 THEN 50 ELSE IF DaysOld[c] <= 30 THEN 30 ELSE 0

\* the try block of _search_posts: the posts ordered by '-relevance', then
\* '-recency_boost' (then '-popularity_boost', which no post has: rows
\* orders the ties); None when the popularity_boost annotation raises
search_posts_ranked(s, lexical, sig, rows, meta) ==
    LET relevance == [c \in Candidates |-> post_relevance(c, s, lexical, sig)]
        order_by == [c \in Candidates |->
                        relevance[c] * 100 + recency_boost(c)]
        filtered == {c \in Candidates :
                        \/ relevance[c] > 1
                        \/ sig[c].rank * 10 > 1
                        \/ icontains(name(c), _normalize_query(s))
                        \/ icontains(other(c), _normalize_query(s))}
        posts == Slice(OrderBy(filtered, order_by, rows), 0, SearchCap)
    IN IF ~ (Resolves("view_count") /\ Resolves("like_count")
             /\ Resolves("comment_count"))
       THEN None
       ELSE IF posts = <<>>
            THEN _prepare_post_queryset(
                     simple_search(s, "Post", SearchCap, rows, meta))
            ELSE _prepare_post_queryset(posts)

\* _search_posts(query): the ranked posts, or after an exception the first
\* 10 posts in trending order (rows), or [] when that raises as well
search_posts_result(s, lexical, sig, rows, meta) ==
    LET ranked == search_posts_ranked(s, lexical, sig, rows, meta)
        fallback_posts == _prepare_post_queryset(
            Slice(OrderBy(Candidates, Flat, rows), 0, TrendingFallbackLimit))
    IN IF ranked # None THEN ranked
       ELSE IF fallback_posts # None THEN fallback_posts
       ELSE <<>>

Signals == [name : {0, 10}, other : {0, 10}, rank : {0, 10}]

\* what PostgreSQL may compute for the candidates: a trigram similarity is
\* 0 for an empty field and 1 for a field that equals the query
Computable(s) ==
    {sig \in [Candidates -> Signals] :
        \A c \in Candidates :
            /\ sig[c].name = trigram(name(c), s, sig[c].name)
            /\ sig[c].other = trigram(other(c), s, sig[c].other)}

\* qParam is the raw q parameter; list() strips it before any search
Stripped == Strip(qParam)

\* list() with simple=true, or the helper called on its own
SimpleSearch ==
    /\ results = None
    /\ \E limit \in {1, SearchCap}, rows \in RowOrders :
         \E meta \in SUBSET {<<c, f>> \in Candidates \X {"name", "other"} :
                               Fuzzy(simple_query(Stripped), cand[c][f])} :
            results' = [op |-> "simple_search", raised |-> FALSE,
                        limit |-> limit, meta |-> meta,
                        items |-> simple_search(Stripped, model, limit,
                                                rows, meta)]
    /\ UNCHANGED <<qParam, model, cand, notSearch>>

\* _search_users(query), requested by a third user; whether the ORM accepts
\* the annotations depends on the User model and the Django version: either
\* outcome is possible
_search_users ==
    /\ results = None
    /\ model = "User"
    /\ LET lexical == [c \in Candidates |-> user_lexical(c, Stripped)]
       IN \/ results' = [op |-> "search_users", raised |-> TRUE,
                         items |-> <<>>]
          \/ \E sig \in Computable(Stripped), rows \in RowOrders :
                results' = [op |-> "search_users", raised |-> FALSE,
                            items |-> search_users_ranked(Stripped, lexical,
                                                          sig, rows,
                                                          Rep("3", 1))]
    /\ UNCHANGED <<qParam, model, cand, notSearch>>

\* _search_posts(query)
_search_posts ==
    /\ results = None
    /\ model = "Post"
    /\ LET lexical == [c \in Candidates |-> post_lexical(c, Stripped)]
       IN \E sig \in Computable(Stripped), rows \in RowOrders :
             results' =
                 [op |-> "search_posts", sig |-> sig,
                  raised |-> search_posts_ranked(Stripped, lexical, sig, rows,
                                                 {}) = None,
                  items |-> search_posts_result(Stripped, lexical, sig, rows,
                                                {})]
    /\ UNCHANGED <<qParam, model, cand, notSearch>>

\* the q parameters of the model: mixed case, surrounding space, and a
\* word of exactly and of one more than QueryLimit characters
Queries ==
    {<<Run("A", 1), Run("z", 1)>>, <<Run(" ", 1), Run("a", 1), Run("z", 1)>>,
     Rep("a", QueryLimit), Rep("a", QueryLimit + 1)}

\* titles or usernames: the query, a lowered prefix match, a suffix match
\* and, for the short queries, an unrelated word
NameChoices(s) ==
    {Strip(s), Concat(Lower(Strip(s)), Rep("z", 1)),
     Concat(Rep("z", 1), Strip(s))}
        \cup (IF StrLen(s) < QueryLimit THEN {Rep("z", 1)} ELSE {})

\* descriptions or first names
OtherChoices(s) ==
    {<<>>, Strip(s), Concat(Rep("z", 1), Concat(Strip(s), Rep("z", 1)))}

SearchInit ==
    /\ qParam \in Queries
    /\ model \in {"Post", "User"}
    /\ cand \in [Candidates ->
                   [name : NameChoices(qParam), other : OtherChoices(qParam),
                    followed : IF model = "User" THEN BOOLEAN ELSE {FALSE}]]
    /\ results = None
    \* no trending activity
    /\ now = 0
    /\ likes = EmptyBag
    /\ comments = EmptyBag
    /\ views = EmptyBag
    /\ shares = 0
    /\ ts = None
    /\ lastCalc = None
    /\ added = 0
    \* no interest graph
    /\ following = {}
    /\ postLikes = {}
    /\ interactions = {}
    /\ graph = None
    \* no feed request
    /\ fAuthor = <<>>
    /\ fTrend = <<>>
    /\ viewerAuth = FALSE
    /\ igraph = <<>>
    /\ reqSection = "all"
    /\ reqLimit = 1
    /\ page = 0
    /\ resp = None
    /\ acc = <<>>
    /\ scroll = "open"
    /\ suggested = None
    /\ wellFormed = TRUE
    \* no sweep
    /\ sweepIn = <<>>
    /\ sweepRows = <<>>
    /\ sweepResult = None
    \* no search endpoint request
    /\ cache = <<>>
    /\ listResp = None
    /\ requests = 0
    /\ signal = None
    /\ activity = <<>>
    /\ pref = None
    /\ graphUpdated = 0
    /\ access = None
    /\ procs = <<>>

SearchNext ==
    \/ SimpleSearch
    \/ _search_users
    \/ _search_posts

SpecSearch == SearchInit /\ [][SearchNext]_vars

(***************************************************************************)
(* Properties of the search.                                               *)
(***************************************************************************)
Position(items, c) == CHOOSE i \in 1..Len(items) : items[i] = c

\* the title or username equals the query
ExactName(c) == name(c) = Stripped

\* the query is inside a field of the candidate and equals none
SubstringOnly(c) ==
    /\ icontains(name(c), Stripped) \/ icontains(other(c), Stripped)
    /\ ~ iexact(name(c), Stripped)
    /\ ~ iexact(other(c), Stripped)

\* C9: in the ordered results of the advanced search, of SimpleSearch and
\* of the user search, whichever candidates are followed, a candidate whose
\* title or username equals the query comes before every candidate that
\* matches the query only as a substring of a field.
C9_ExactBeforeSubstring ==
    results # None =>
        \A x, y \in Range(results.items) :
            ExactName(x) /\ SubstringOnly(y) =>
                Position(results.items, x) < Position(results.items, y)

\* the stage of simple_search a candidate belongs to by its fields: 1 when
\* a field equals the query, 2 when a field contains it, 3 otherwise
Stage(c) ==
    IF iexact(name(c), Stripped) \/ iexact(other(c), Stripped) THEN 1
    ELSE IF icontains(name(c), Stripped) \/ icontains(other(c), Stripped)
    THEN 2 ELSE 3

\* C25: simple_search(query, model, fields, limit) returns at most limit
\* items, none repeated, exact matches first, then substring matches, then
\* scan matches in non-increasing similarity, each of similarity above 0.6;
\* scan matches are returned only when fewer than limit candidates match
\* exactly or as a substring.
C25_SimpleSearchStages ==
    results # None /\ results.op = "simple_search" =>
        LET items == results.items
            score(c) == max_score(Stripped, c, results.meta)
        IN /\ Len(items) <= results.limit
           /\ Cardinality(Range(items)) = Len(items)
           /\ \A i, j \in 1..Len(items) :
                 i < j =>
                    /\ Stage(items[i]) <= Stage(items[j])
                    /\ Stage(items[i]) = 3 =>
                          SimLeq(score(items[j]), score(items[i]))
           /\ \A i \in 1..Len(items) :
                 Stage(items[i]) = 3 =>
                    /\ 5 * score(items[i]).n > 3 * score(items[i]).d
                    /\ Cardinality({c \in Candidates : Stage(c) < 3})
                          < results.limit

\* the recency tier of a post, in halves: 2.0 up to 1 day old, 1.5 up to 7
\* days, 1.0 up to 30 days, 0.5 beyond
RecencyTier(c) ==
    IF DaysOld[c] <= 1 THEN 4
    ELSE IF DaysOld[c] <= 7 THEN 3
    ELSE IF DaysOld[c] <= 30 THEN 2 ELSE 1

\* C26: the advanced post search orders the posts it finds by relevance
\* times the recency tier plus 0.005*views + 0.01*likes + 0.02*comments (0
\* for the posts here, which have no views, likes or comments), relevance
\* being the largest of the exact, prefix, substring, fuzzy, phonetic and
\* weighted full-text signals: a newer post of lower relevance can come
\* before an older one of higher relevance.
C26_OrderingValue ==
    results # None /\ results.op = "search_posts" =>
        LET lexical == [c \in Candidates |-> post_lexical(c, Stripped)]
            relevance == [c \in Candidates |->
                             post_relevance(c, Stripped, lexical, results.sig)]
            value == [c \in Candidates |-> relevance[c] * RecencyTier(c)]
            items == results.items
        IN /\ Range(items) = {c \in Candidates : relevance[c] > 1}
           /\ \A i, j \in 1..Len(items) :
                 i < j => value[items[i]] >= value[items[j]]

(***************************************************************************)
(* The search endpoint, SearchViewSet.list, with the result cache.  The    *)
(* cache maps a key to the stored list; each entry also remembers the      *)
(* normalized query, the kind and the user id of the request whose         *)
(* computation stored it.  The candidates have no fuzzy or phonetic match  *)
(* with the queries, and the full-text rank of every row is 0.             *)
(***************************************************************************)
\* bound on the number of requests of one behaviour
MaxRequests == 2

\* the defaults of the page and page_size parameters
ListPage == 1
ListPageSize == 20

ListKinds == {"posts", "users"}

\* search_type in ['all', kind]
requested(search_type) ==
    IF search_type = "all" THEN ListKinds
    ELSE IF search_type \in ListKinds THEN {search_type}
    ELSE {}

\* a literal text, character by character
RECURSIVE Text(_)
Text(chars) ==
    IF chars = <<>> THEN <<>>
    ELSE Concat(Rep(chars[1], 1), Text(Tail(chars)))

KindText ==
    [k \in ListKinds |->
        IF k = "users" THEN Text(<<"u", "s", "e", "r", "s">>)
        ELSE Text(<<"p", "o", "s", "t", "s">>)]

\* f"search_{search_type}_{normalized_query}_{user_id}"
_get_cache_key(query, search_type, user_id) ==
    Concat(Text(<<"s", "e", "a", "r", "c", "h", "_">>),
           Concat(KindText[search_type],
                  Concat(Rep("_", 1),
                         Concat(_normalize_query(query),
                                Concat(Rep("_", 1), user_id)))))

\* cache.get(key): [] stands for the None of an absent key, both are falsy
cache_get(store, key) ==
    IF key \in DOMAIN store THEN store[key].items ELSE <<>>

\* cache.set(key, items, ttl)
cache_set(store, key, entry) ==
    [k \in DOMAIN store \cup {key} |-> IF k = key THEN entry ELSE store[k]]

\* what PostgreSQL computes when no row has a fuzzy or a full-text match
PlainSignal(s) ==
    [c \in Candidates |->
        [name |-> trigram(name(c), s, 0), other |-> trigram(other(c), s, 0),
         rank |-> 0]]

\* _prepare_post_queryset raises on every queryset: its annotation does
\* not depend on the rows
PrepareRaises == _prepare_post_queryset(<<>>) = None

\* the except branch of _search_posts: the first 10 posts in trending
\* order, [] when that raises as well
trending_fallback(rows) ==
    IF PrepareRaises THEN <<>>
    ELSE _prepare_post_queryset(
             Slice(OrderBy(Candidates, Flat, rows), 0, TrendingFallbackLimit))

\* the environment of one request: the cache store raises on get, or on
\* set, or the ORM rejects the annotations of the user search
Environments == {"none", "cache_get", "cache_set", "orm"}

\* the ranked list of the try block of _search_users or _search_posts;
\* ok is FALSE when the query raises
ranked_list(kind, query, env, rows, user_id) ==
    IF kind = "users"
    THEN IF env = "orm" THEN [ok |-> FALSE, items |-> <<>>]
         ELSE [ok |-> TRUE,
               items |-> search_users_ranked(
                   query, [c \in Candidates |-> user_lexical(c, query)],
                   PlainSignal(query), rows, user_id)]
    ELSE IF PrepareRaises THEN [ok |-> FALSE, items |-> <<>>]
         ELSE [ok |-> TRUE,
               items |-> search_posts_ranked(
                   query, [c \in Candidates |-> post_lexical(c, query)],
                   PlainSignal(query), rows, {})]

\* the rest of _search_users(query) and _search_posts(query) once the key,
\* the ranking (computed) and the result of the except branch are known:
\* the returned list, the cache afterwards, and what happened
search_outcome(kind, query, rq, env, store, cache_key, computed, on_error) ==
    IF ~ rq.refresh /\ env = "cache_get"
    THEN [items |-> on_error, store |-> store, served |-> FALSE,
          source |-> None, raised |-> TRUE, cache_raised |-> TRUE,
          stored |-> FALSE]
    ELSE IF ~ rq.refresh /\ cache_get(store, cache_key) # <<>>
    THEN [items |-> cache_get(store, cache_key), store |-> store,
          served |-> TRUE, source |-> store[cache_key], raised |-> FALSE,
          cache_raised |-> FALSE, stored |-> FALSE]
    ELSE IF ~ computed.ok
    THEN [items |-> on_error, store |-> store, served |-> FALSE,
          source |-> None, raised |-> TRUE, cache_raised |-> FALSE,
          stored |-> FALSE]
    ELSE IF env = "cache_set"
    THEN [items |-> on_error, store |-> store, served |-> FALSE,
          source |-> None, raised |-> TRUE, cache_raised |-> TRUE,
          stored |-> FALSE]
    ELSE [items |-> computed.items,
          store |-> cache_set(store, cache_key,
                              [items |-> computed.items,
                               query |-> _normalize_query(query),
                               kind |-> kind, user |-> rq.user]),
          served |-> FALSE, source |-> None, raised |-> FALSE,
          cache_raised |-> FALSE, stored |-> TRUE]

\* _search_users(query) and _search_posts(query) for a non-empty query
advanced_search(kind, query, rq, env, rows, store) ==
    search_outcome(kind, query, rq, env, store,
                   _get_cache_key(query, kind, rq.user),
                   ranked_list(kind, query, env, rows, rq.user),
                   IF kind = "users" THEN <<>> ELSE trending_fallback(rows))

NotRequested ==
    [items |-> <<>>, total |-> 0, called |-> FALSE,
     advanced_called |-> FALSE, advanced |-> <<>>,
     advanced_raised |-> FALSE, simple_ran |-> FALSE, simple_found |-> <<>>,
     served |-> FALSE, source |-> None, cache_raised |-> FALSE,
     stored |-> FALSE]

\* the rest of a block of list() once the advanced search returned adv (None
\* with simple=true): found is what simple_search returns when it runs
block_outcome(kind, rq, store, adv, found) ==
    LET run_simple == rq.simple \/ adv.items = <<>>
        \* the serializer call of the simple branch raises for posts
        raised == run_simple /\ kind = "posts" /\ PrepareRaises
        start == (rq.page.v - 1) * ListPageSize
    IN [out |-> [items |-> IF raised THEN <<>>
                           ELSE IF run_simple
                                THEN Slice(found, start, ListPageSize)
                                ELSE Slice(adv.items, start, ListPageSize),
                 total |-> IF raised THEN 0
                           ELSE IF run_simple THEN Len(found)
                           ELSE Len(adv.items),
                 called |-> TRUE,
                 advanced_called |-> adv # None,
                 advanced |-> IF adv = None THEN <<>> ELSE adv.items,
                 advanced_raised |-> adv # None /\ adv.raised,
                 simple_ran |-> run_simple,
                 simple_found |-> IF run_simple THEN found ELSE <<>>,
                 served |-> adv # None /\ adv.served,
                 source |-> IF adv = None THEN None ELSE adv.source,
                 cache_raised |-> adv # None /\ adv.cache_raised,
                 stored |-> adv # None /\ adv.stored],
        store |-> IF adv = None THEN store ELSE adv.store]

\* one of the two "if search_type in ['all', kind]" blocks of list() for a
\* non-empty query, first page: the outcome and the cache afterwards
kind_block(kind, query, rq, env, rows, store) ==
    IF kind \notin requested(rq.type)
    THEN [out |-> NotRequested, store |-> store]
    ELSE block_outcome(
             kind, rq, store,
             IF rq.simple THEN None
             ELSE advanced_search(kind, query, rq, env, rows, store),
             simple_search(query, IF kind = "posts" THEN "Post" ELSE "User",
                           SearchCap, rows, {}))

\* the 500 response of the outer except of list()
ListError ==
    [posts |-> NotRequested, users |-> NotRequested]

\* the response to an empty query: trending content instead of results
trending_content(kinds, rows, store) ==
    IF "posts" \in kinds /\ PrepareRaises
    THEN [status |-> 500, searched |-> FALSE, k |-> ListError,
          store |-> store]
    ELSE [status |-> 200, searched |-> FALSE,
          k |-> [kind \in ListKinds |->
                   IF kind \in kinds
                   THEN [NotRequested EXCEPT
                           !.items = Slice(OrderBy(Candidates, Flat, rows),
                                           0, ListPageSize),
                           !.total = Cardinality(Candidates)]
                   ELSE NotRequested],
          store |-> store]

\* the users block, which runs after the posts block
users_block(query, rq, env, rows, posts) ==
    [posts |-> posts.out,
     users |-> kind_block("users", query, rq, env, rows, posts.store)]

\* the response once both blocks have run
searched(both) ==
    [status |-> 200, searched |-> TRUE,
     k |-> [posts |-> both.posts, users |-> both.users.out],
     store |-> both.users.store]

\* the body of list(): the status, the two blocks and the cache afterwards
list_blocks(rq, env, rows, store) ==
    IF ~ rq.page.ok
    THEN [status |-> 500, searched |-> FALSE, k |-> ListError,
          store |-> store]
    ELSE IF Strip(rq.q) = <<>>
    THEN trending_content(requested(rq.type), rows, store)
    ELSE searched(users_block(
             Strip(rq.q), rq, env, rows,
             kind_block("posts", Strip(rq.q), rq, env, rows, store)))

\* results['posts'] and results['users'] of a response
Data(blocks) ==
    [posts |-> blocks.k["posts"].items, users |-> blocks.k["users"].items]

\* the user ids of the requests
UserIds == {Rep("1", 1), Rep("1", 2)}

\* the q parameters: two spellings of one normalized query and another query
ListQueries ==
    {Text(<<"A", "z">>), Text(<<"a", "z">>), Text(<<"z", "_", "1">>)}

\* the requests: searches of one kind by either user and of both kinds by
\* the first, an empty query per type, and a page that is not a number
ListRequests ==
    [q : ListQueries, type : {"posts", "users"}, user : UserIds,
     simple : BOOLEAN, refresh : BOOLEAN, page : {IntText(ListPage)}]
    \cup [q : ListQueries, type : {"all"}, user : {Rep("1", 1)},
          simple : BOOLEAN, refresh : BOOLEAN, page : {IntText(ListPage)}]
    \cup [q : {<<>>}, type : {"posts", "users"}, user : {Rep("1", 1)},
          simple : {FALSE}, refresh : {FALSE}, page : {IntText(ListPage)}]
    \cup [q : {Text(<<"a", "z">>)}, type : {"all"}, user : {Rep("1", 1)},
          simple : {FALSE}, refresh : {FALSE}, page : {NotAnInt}]

\* the response and the cache after a request; miss: the blocks of the
\* same request on a cache miss with a working cache
respond(rq, env, blocks, miss) ==
    /\ listResp' = [status |-> blocks.status,
                    success |-> blocks.status = 200,
                    data |-> Data(blocks),
                    req |-> rq, env |-> env,
                    searched |-> blocks.searched,
                    k |-> blocks.k,
                    miss |-> Data(miss)]
    /\ cache' = blocks.store

\* SearchViewSet.list(request)
list ==
    /\ listResp = None
    /\ requests < MaxRequests
    /\ \E rq \in ListRequests, env \in Environments, rows \in RowOrders :
          respond(rq, env, list_blocks(rq, env, rows, cache),
                  list_blocks(rq, "none", rows, <<>>))
    /\ requests' = requests + 1
    /\ UNCHANGED <<searchVars, notList>>

\* the client receives the response
deliver ==
    /\ listResp # None
    /\ listResp' = None
    /\ UNCHANGED <<cache, requests, searchVars, notList>>

\* the usernames, or titles, of the two candidates
ListNames ==
    [c \in Candidates |->
        IF c = "c1" THEN {Text(<<"a", "z">>), Text(<<"z", "a", "z">>)}
        ELSE {Text(<<"a", "z", "_", "1">>), Text(<<"z">>)}]

ListInit ==
    /\ cand \in {f \in [Candidates ->
                          [name : ListNames["c1"] \cup ListNames["c2"],
                           other : {<<>>}, followed : {FALSE}]] :
                    \A c \in Candidates : f[c].name \in ListNames[c]}
    /\ cache = <<>>
    /\ listResp = None
    /\ requests = 0
    /\ signal = None
    /\ activity = <<>>
    /\ pref = None
    /\ graphUpdated = 0
    /\ access = None
    /\ procs = <<>>
    /\ qParam = <<>>
    /\ model = "Post"
    /\ results = None
    \* no trending activity
    /\ now = 0
    /\ likes = EmptyBag
    /\ comments = EmptyBag
    /\ views = EmptyBag
    /\ shares = 0
    /\ ts = None
    /\ lastCalc = None
    /\ added = 0
    \* no interest graph
    /\ following = {}
    /\ postLikes = {}
    /\ interactions = {}
    /\ graph = None
    /\ suggested = None
    \* no feed request
    /\ fAuthor = <<>>
    /\ fTrend = <<>>
    /\ viewerAuth = FALSE
    /\ igraph = <<>>
    /\ reqSection = "all"
    /\ reqLimit = 1
    /\ page = 0
    /\ resp = None
    /\ acc = <<>>
    /\ scroll = "open"
    /\ wellFormed = TRUE
    \* no sweep
    /\ sweepIn = <<>>
    /\ sweepRows = <<>>
    /\ sweepResult = None

ListNext ==
    \/ list
    \/ deliver

SpecList == ListInit /\ [][ListNext]_vars

(***************************************************************************)
(* Properties of the search endpoint.                                      *)
(***************************************************************************)
\* C30: the users list the search endpoint returns for a non-empty query
\* never contains the requesting user, whether it comes from the advanced
\* search, from the SimpleSearch fallback or from simple=true.
C30_RequesterExcluded ==
    listResp # None /\ listResp.searched =>
        \A i \in 1..Len(listResp.data.users) :
            RowUser[listResp.data.users[i]] # listResp.req.user

\* C14: for a non-empty query and each requested kind, SimpleSearch runs
\* exactly when simple=true or the advanced search of the kind returned no
\* match, and when the advanced search raised or returned no match the
\* items of the response are the first page of what SimpleSearch found.
C14_SimpleSearchFallback ==
    listResp # None /\ listResp.searched =>
        \A kind \in requested(listResp.req.type) :
            LET r == listResp.k[kind]
            IN /\ r.simple_ran <=>
                     \/ listResp.req.simple
                     \/ r.advanced_called /\ r.advanced = <<>>
               /\ ~ listResp.req.simple
                  /\ (r.advanced_raised \/ r.advanced = <<>>) =>
                      /\ r.simple_ran
                      /\ r.items = Slice(r.simple_found, 0, ListPageSize)

\* a list served from the cache was stored for the request's normalized
\* query, kind and user id, and not to a request with refresh=true
ServedForSameKey ==
    listResp # None =>
        \A kind \in ListKinds :
            LET r == listResp.k[kind]
            IN r.served =>
                  /\ ~ listResp.req.refresh
                  /\ r.source.query = _normalize_query(Strip(listResp.req.q))
                  /\ r.source.kind = kind
                  /\ r.source.user = listResp.req.user

\* C15: a list served from the cache was computed for the same normalized
\* query, kind and user id as the request, and a search with refresh=true
\* is never served from the cache: it recomputes and the entry of its key
\* holds the recomputed list afterwards.
C15_CacheKeyed ==
    /\ ServedForSameKey
    /\ listResp # None /\ listResp.searched /\ listResp.req.refresh
       /\ ~ listResp.req.simple =>
          \A kind \in requested(listResp.req.type) :
             LET r == listResp.k[kind]
                 key == _get_cache_key(Strip(listResp.req.q), kind,
                                       listResp.req.user)
             IN /\ ~ r.served
                /\ r.stored
                /\ key \in DOMAIN cache
                /\ cache[key].items = r.advanced

MaxViewers == 2

Viewers == 1..MaxViewers

\* post.trending_score: the related row is read; when there is none the
\* bare except swallows DoesNotExist and the request is over
record_view_load(r) ==
    /\ procs[r].pc = "start"
    /\ procs' = [procs EXCEPT ![r] =
                    IF ts = None THEN [pc |-> "done", row |-> None]
                    ELSE [pc |-> "loaded", row |-> ts]]
    /\ UNCHANGED <<trendVars, graphVars, notProcs>>

\* view_count += 1 on the loaded row, then save(update_fields=['view_count'])
record_view_save(r) ==
    /\ procs[r].pc = "loaded"
    /\ ts' = [ts EXCEPT !.view_count = procs[r].row.view_count + 1]
    /\ procs' = [procs EXCEPT ![r] = [pc |-> "done", row |-> procs[r].row]]
    /\ UNCHANGED <<now, likes, comments, views, shares, lastCalc, added,
                   graphVars, notProcs>>

record_view ==
    \E r \in Viewers : record_view_load(r) \/ record_view_save(r)

ViewInit ==
    /\ now = 0
    /\ likes \in {EmptyBag, [EmptyBag EXCEPT ![0] = 1]}
    /\ comments = EmptyBag
    /\ views = EmptyBag
    /\ shares = 0
    /\ ts \in {None, DefaultTrendingScore(0)}
    /\ lastCalc = None
    /\ added = 0
    /\ procs = [r \in Viewers |-> [pc |-> "start", row |-> None]]
    \* no interest graph
    /\ following = {}
    /\ postLikes = {}
    /\ interactions = {}
    /\ graph = None
    /\ suggested = None
    \* no feed request
    /\ fAuthor = <<>>
    /\ fTrend = <<>>
    /\ viewerAuth = FALSE
    /\ igraph = <<>>
    /\ reqSection = "all"
    /\ reqLimit = 1
    /\ page = 0
    /\ resp = None
    /\ acc = <<>>
    /\ scroll = "open"
    /\ wellFormed = TRUE
    \* no search request
    /\ qParam = <<>>
    /\ model = "Post"
    /\ cand = <<>>
    /\ results = None
    \* no sweep
    /\ sweepIn = <<>>
    /\ sweepRows = <<>>
    /\ sweepResult = None
    \* no search endpoint request
    /\ cache = <<>>
    /\ listResp = None
    /\ requests = 0
    /\ signal = None
    /\ activity = <<>>
    /\ pref = None
    /\ graphUpdated = 0
    /\ access = None

ViewNext ==
    \/ record_view
    \/ update_trending_scores
    \/ _update_trending_score
    \/ Tick

SpecView == ViewInit /\ [][ViewNext]_vars

\* the row the batch formula writes now
BatchRow ==
    TrendingScore(final_score(likes, comments, views, now),
                  BagCount(views), BagCount(likes), BagCount(comments),
                  shares, now)

\* C21: a step that changes an existing TrendingScore row is a write of one
\* of the two trending formulas, which sets the score and the counts of the
\* row together; no step changes a single field and leaves the others as an
\* earlier calculation stored them.
C21_OnlyFormulasWrite ==
    [][ts # None /\ ts' # ts =>
          \/ ts' = BatchRow
          \/ ts' = IncrementalRow(BagCount(likes), BagCount(comments), shares)
      ]_vars

\* C28: when all the concurrent anonymous record_view requests for a post
\* with a TrendingScore row are over and no formula has written the row, its
\* view_count is higher by the number of requests.
C28_NoLostView ==
    /\ ts # None
    /\ lastCalc = None
    /\ \A r \in Viewers : procs[r].pc = "done"
    => ts.view_count = Cardinality(Viewers)

(***************************************************************************)
(* Concurrent recomputations of one derived record.  For the TrendingScore *)
(* of the post: the loop body of the sweep (its count queries, then        *)
(* update_or_create) and _update_trending_score (load or create the row,   *)
(* count, save()).  For the interest graph of Owner: two calls of          *)
(* calculate_interest_graph (the queries that build the dict, then         *)
(* save()).  Likes and follows arrive between the statements.              *)
(***************************************************************************)
ScoreWriters == {"sweep", "inc"}
GraphWriters == {"g1", "g2"}
Writers == ScoreWriters \cup GraphWriters

\* a save that writes the score column alone
saved_score_only(stored, local) ==
    IF stored = None THEN local ELSE [stored EXCEPT !.score = local.score]

\* Model.save() and update_or_create(defaults=...) write every column of the
\* row from the instance in memory
saved_row(stored, local) == local

Step(w, pc, row) == [procs EXCEPT ![w] = [pc |-> pc, row |-> row]]

\* the count queries and the formula of the sweep for the post
sweep_compute ==
    /\ procs["sweep"].pc = "start"
    /\ procs' = Step("sweep", "computed", BatchRow)
    /\ UNCHANGED <<trendVars, graphVars, notProcs>>

\* TrendingScore.objects.update_or_create(post=post, defaults={...})
sweep_save ==
    /\ procs["sweep"].pc = "computed"
    /\ ts' = saved_row(ts, procs["sweep"].row)
    /\ procs' = Step("sweep", "done", procs["sweep"].row)
    /\ UNCHANGED <<now, likes, comments, views, shares, lastCalc, added,
                   graphVars, notProcs>>

\* trending_score = post.trending_score, or the row created when missing
inc_load ==
    /\ procs["inc"].pc = "start"
    /\ ts' = IF ts = None THEN DefaultTrendingScore(now) ELSE ts
    /\ procs' = Step("inc", "loaded", ts')
    /\ UNCHANGED <<now, likes, comments, views, shares, lastCalc, added,
                   graphVars, notProcs>>

\* the three counts and the score, set on the loaded instance
inc_count ==
    /\ procs["inc"].pc = "loaded"
    /\ procs' = Step("inc", "counted",
                     [procs["inc"].row EXCEPT
                        !.like_count = BagCount(likes),
                        !.comment_count = BagCount(comments),
                        !.share_count = shares,
                        !.score = incremental_score(BagCount(likes),
                                      BagCount(comments), shares, now),
                        !.last_calculated = now])
    /\ UNCHANGED <<trendVars, graphVars, notProcs>>

\* trending_score.save()
inc_save ==
    /\ procs["inc"].pc = "counted"
    /\ ts' = saved_row(ts, procs["inc"].row)
    /\ procs' = Step("inc", "done", procs["inc"].row)
    /\ UNCHANGED <<now, likes, comments, views, shares, lastCalc, added,
                   graphVars, notProcs>>

\* the passes of calculate_interest_graph that build the dict
graph_compute(g) ==
    /\ procs[g].pc = "start"
    /\ procs' = Step(g, "computed",
                     InterestGraphOf(Owner, following, postLikes,
                                     interactions))
    /\ UNCHANGED <<trendVars, graphVars, notProcs>>

\* self.interest_graph = interest_graph; self.save()
graph_save(g) ==
    /\ procs[g].pc = "computed"
    /\ graph' = procs[g].row
    /\ procs' = Step(g, "done", procs[g].row)
    /\ UNCHANGED <<following, postLikes, interactions, suggested, trendVars,
                   notProcs>>

recalculate_graph ==
    \E g \in GraphWriters : graph_compute(g) \/ graph_save(g)

\* another user follows Owner: the receiver recalculates the follower's
\* graph, not Owner's
followed_by ==
    \E v \in Users \ {Owner} :
        /\ <<v, Owner>> \notin following
        /\ following' = following \cup {<<v, Owner>>}
        /\ UNCHANGED <<postLikes, interactions, graph, suggested, notGraph>>

RaceInit ==
    /\ now = 0
    /\ likes = EmptyBag
    /\ comments = EmptyBag
    /\ views = EmptyBag
    /\ shares = 0
    /\ ts \in {None, DefaultTrendingScore(0)}
    /\ lastCalc = None
    /\ added = 0
    /\ following \in {{}, {<<Owner, "u2">>}}
    /\ postLikes = {}
    /\ interactions = {}
    /\ graph = None
    /\ suggested = None
    /\ procs = [w \in Writers |-> [pc |-> "start", row |-> None]]
    \* no feed request
    /\ fAuthor = <<>>
    /\ fTrend = <<>>
    /\ viewerAuth = FALSE
    /\ igraph = <<>>
    /\ reqSection = "all"
    /\ reqLimit = 1
    /\ page = 0
    /\ resp = None
    /\ acc = <<>>
    /\ scroll = "open"
    /\ wellFormed = TRUE
    \* no search request
    /\ qParam = <<>>
    /\ model = "Post"
    /\ cand = <<>>
    /\ results = None
    \* no sweep
    /\ sweepIn = <<>>
    /\ sweepRows = <<>>
    /\ sweepResult = None
    \* no search endpoint request
    /\ cache = <<>>
    /\ listResp = None
    /\ requests = 0
    /\ signal = None
    /\ activity = <<>>
    /\ pref = None
    /\ graphUpdated = 0
    /\ access = None

RaceNext ==
    \/ sweep_compute
    \/ sweep_save
    \/ inc_load
    \/ inc_count
    \/ inc_save
    \/ recalculate_graph
    \/ followed_by
    \/ AddLike

SpecRace == RaceInit /\ [][RaceNext]_vars

\* the record of writer w is complete: w has saved, and row is what it saved
Wrote(w, record) == procs[w].pc = "done" /\ record = procs[w].row

\* C22: in every interleaving of the sweep and the incremental update of a
\* post, and of two recalculations of a user's graph, the stored
\* TrendingScore is the freshly created default row or the complete row one
\* of the two writers saved, and the stored graph is the complete graph one
\* of the two recalculations saved.
C22_LastWriterWins ==
    /\ ts # None =>
          \/ ts = DefaultTrendingScore(0)
          \/ \E w \in ScoreWriters : Wrote(w, ts)
    /\ graph # None => \E g \in GraphWriters : Wrote(g, graph)

\* both score writers and both graph recalculations have saved; the sweep
\* saved between the load and the save of the incremental update, and the
\* two graphs computed differ
C22_Witness ==
    /\ \A w \in Writers : procs[w].pc = "done"
    /\ ts = procs["inc"].row
    /\ ts # procs["sweep"].row
    /\ procs["inc"].row.view_count # procs["sweep"].row.view_count
       \/ procs["inc"].row.like_count # procs["sweep"].row.like_count
    /\ procs["g1"].row # procs["g2"].row
    /\ graph = procs["g2"].row

(***************************************************************************)
(* The lazily refreshed records of Owner (posts/models.py):                *)
(* UserContentPreference and UserInterestGraph, read through their         *)
(* get_or_create_for_user.  last_updated is auto_now: every save() sets it *)
(* to the time of the save.  The posts have no tags.                       *)
(***************************************************************************)
\* bound on the rows of each kind of activity of the user
MaxActivity == 1

\* PostInteraction and PostView rows of the user, by the type of the post
ActivityKinds ==
    {"news_interactions", "audio_interactions", "news_views", "audio_views"}

\* a row as get_or_create writes it: the defaults of the fields
DefaultPreference(at) ==
    [news_preference |-> 50, audio_preference |-> 50, last_updated |-> at]

\* int((part / total) * 100)
Percent(part, total) == (part * 100) \div total

\* update_preferences(): the row afterwards; it is saved, and last_updated
\* set, only inside "if post_interactions.exists() or post_views.exists()"
update_preferences(row, act, t) ==
    LET total_interactions ==
            act["news_interactions"] + act["audio_interactions"]
        viewed_total == act["news_views"] + act["audio_views"]
    IN IF total_interactions > 0
       THEN [news_preference |->
                 Percent(act["news_interactions"], total_interactions),
             audio_preference |->
                 Percent(act["audio_interactions"], total_interactions),
             last_updated |-> t]
       ELSE IF viewed_total > 0
       THEN [news_preference |-> Percent(act["news_views"], viewed_total),
             audio_preference |-> Percent(act["audio_views"], viewed_total),
             last_updated |-> t]
       ELSE row

\* what an access records: whether it found a row older than the threshold,
\* whether it recomputed, and whether it directly follows an access of the
\* same record, at the same instant, that found the row too old
Access(kind, stale, recomputed) ==
    [kind |-> kind, at |-> now, stale |-> stale, recomputed |-> recomputed,
     follows_refresh |-> /\ access # None
                         /\ access.kind = kind
                         /\ access.at = now
                         /\ access.stale]

\* UserContentPreference.get_or_create_for_user(user)
preference_get_or_create_for_user ==
    LET created == pref = None
        row == IF created THEN DefaultPreference(now) ELSE pref
        stale == ~ created /\ now - row.last_updated > WeekHours
    IN /\ pref' = IF created \/ stale
                  THEN update_preferences(row, activity, now)
                  ELSE row
       /\ access' = Access("preference", stale, created \/ stale)
       /\ UNCHANGED <<activity, graphUpdated, trendVars, graphVars, notLazy>>

\* UserInterestGraph.get_or_create_for_user(user)
graph_get_or_create_for_user ==
    LET created == graph = None
        stale == ~ created /\ now - graphUpdated > DayHours
    IN /\ graph' = IF created \/ stale
                   THEN InterestGraphOf(Owner, following, postLikes,
                                        interactions)
                   ELSE graph
       /\ graphUpdated' = IF created \/ stale THEN now ELSE graphUpdated
       /\ access' = Access("graph", stale, created \/ stale)
       /\ UNCHANGED <<activity, pref, following, postLikes, interactions,
                      suggested, trendVars, notLazy>>

\* the user views or interacts with a post
add_activity ==
    \E k \in ActivityKinds :
        /\ activity[k] < MaxActivity
        /\ activity' = [activity EXCEPT ![k] = @ + 1]
        /\ access' = None
        /\ UNCHANGED <<pref, graphUpdated, trendVars, graphVars, notLazy>>

LazyInit ==
    /\ now = 0
    /\ following \in {{}, {<<Owner, "u2">>}}
    /\ graph \in {None, EmptyGraph}
    /\ activity \in [ActivityKinds -> 0..MaxActivity]
    /\ pref \in {None, DefaultPreference(0)}
    /\ graphUpdated = 0
    /\ access = None
    /\ likes = EmptyBag
    /\ comments = EmptyBag
    /\ views = EmptyBag
    /\ shares = 0
    /\ ts = None
    /\ lastCalc = None
    /\ added = 0
    /\ postLikes = {}
    /\ interactions = {}
    /\ suggested = None
    \* no feed request
    /\ fAuthor = <<>>
    /\ fTrend = <<>>
    /\ viewerAuth = FALSE
    /\ igraph = <<>>
    /\ reqSection = "all"
    /\ reqLimit = 1
    /\ page = 0
    /\ resp = None
    /\ acc = <<>>
    /\ scroll = "open"
    /\ wellFormed = TRUE
    \* no search request
    /\ qParam = <<>>
    /\ model = "Post"
    /\ cand = <<>>
    /\ results = None
    \* no sweep
    /\ sweepIn = <<>>
    /\ sweepRows = <<>>
    /\ sweepResult = None
    \* no search endpoint request
    /\ cache = <<>>
    /\ listResp = None
    /\ requests = 0
    /\ signal = None
    \* no concurrent request
    /\ procs = <<>>

LazyNext ==
    \/ preference_get_or_create_for_user
    \/ graph_get_or_create_for_user
    \/ add_activity
    \/ Tick

SpecLazy == LazyInit /\ [][LazyNext]_vars

\* last_updated of the record an access read
LastUpdated(kind) ==
    IF kind = "preference" THEN pref.last_updated ELSE graphUpdated

\* C23: after an access through get_or_create_for_user that found the
\* ContentPreference older than 7 days, or the InterestGraph older than 1
\* day, the record's last_updated is the time of that access, and an access
\* that directly follows it does not recompute; for every activity of the
\* user, none included.
C23_LazyRefresh ==
    access # None =>
        /\ access.stale => LastUpdated(access.kind) = access.at
        /\ access.follows_refresh => ~ access.recomputed

(***************************************************************************)
(* The live events of Owner and the m2m_changed receivers of               *)
(* posts/signals.py that keep Owner's interest graph: a follow or unfollow *)
(* (users/views.py), a like or unlike of the post (posts/views.py).        *)
(***************************************************************************)
\* UserInterestGraph.objects.get_or_create(user=...): the stored graph, or a
\* new row with the default, empty, graph
graph_get_or_create(g) == IF g = None THEN EmptyGraph ELSE g

Signal(event, recalculated) ==
    [event |-> event, recalculated |-> recalculated]

\* UserViewSet.follow (action post_add) and UserViewSet.unfollow (action
\* post_remove) of request.user = Owner, with update_interest_graph_on_follow
update_interest_graph_on_follow(action) ==
    \E b \in Users \ {Owner} :
        /\ IF action = "post_add"
           THEN /\ <<Owner, b>> \notin following
                /\ Cardinality(following) < MaxFollows
                /\ following' = following \cup {<<Owner, b>>}
           ELSE /\ <<Owner, b>> \in following
                /\ following' = following \ {<<Owner, b>>}
        /\ graph' = InterestGraphOf(Owner, following', postLikes, interactions)
        /\ signal' = Signal(action, TRUE)
        /\ UNCHANGED <<postLikes, interactions, suggested, notSignal>>

\* PostViewSet.like of request.user = Owner, with
\* update_interest_graph_on_like: post.likes.add(user) sends post_add, and
\* the receiver recalculates when random.random() < 0.2; post.likes.remove
\* sends post_remove, which the receiver ignores
update_interest_graph_on_like ==
    /\ IF Owner \in postLikes
       THEN /\ postLikes' = postLikes \ {Owner}
            /\ signal' = Signal("unlike", FALSE)
            /\ graph' = graph
       ELSE /\ postLikes' = postLikes \cup {Owner}
            /\ \E drawn \in BOOLEAN :
                  /\ signal' = Signal("like", drawn)
                  /\ graph' = IF drawn
                              THEN InterestGraphOf(Owner, following,
                                                   postLikes', interactions)
                              ELSE graph_get_or_create(graph)
    /\ UNCHANGED <<following, interactions, suggested, notSignal>>

SignalInit ==
    /\ following \in {f \in SUBSET (Users \X Users) : Cardinality(f) <= MaxFollows}
    /\ postLikes \in SUBSET Users
    /\ interactions = {}
    /\ graph \in {None, EmptyGraph}
    /\ suggested = None
    /\ signal = None
    \* no trending activity
    /\ now = 0
    /\ likes = EmptyBag
    /\ comments = EmptyBag
    /\ views = EmptyBag
    /\ shares = 0
    /\ ts = None
    /\ lastCalc = None
    /\ added = 0
    \* no feed request
    /\ fAuthor = <<>>
    /\ fTrend = <<>>
    /\ viewerAuth = FALSE
    /\ igraph = <<>>
    /\ reqSection = "all"
    /\ reqLimit = 1
    /\ page = 0
    /\ resp = None
    /\ acc = <<>>
    /\ scroll = "open"
    /\ wellFormed = TRUE
    \* no search request
    /\ qParam = <<>>
    /\ model = "Post"
    /\ cand = <<>>
    /\ results = None
    \* no sweep
    /\ sweepIn = <<>>
    /\ sweepRows = <<>>
    /\ sweepResult = None
    \* no search endpoint request
    /\ cache = <<>>
    /\ listResp = None
    /\ requests = 0
    \* no concurrent request
    /\ procs = <<>>
    \* no lazy refresh
    /\ activity = <<>>
    /\ pref = None
    /\ graphUpdated = 0
    /\ access = None

SignalNext ==
    \/ update_interest_graph_on_follow("post_add")
    \/ update_interest_graph_on_follow("post_remove")
    \/ update_interest_graph_on_like

SpecSignal == SignalInit /\ [][SignalNext]_vars

\* Owner can like the post
CanLike == Owner \notin postLikes

\* C27: on a live follow, unfollow or like event the acting user's graph is
\* recalculated only opportunistically: whenever such an event can happen
\* it can complete without a recalculation, and it can also complete with
\* one.
C27_Opportunistic ==
    /\ \A action \in {"post_add", "post_remove"} :
          ENABLED update_interest_graph_on_follow(action) =>
             /\ ENABLED (/\ update_interest_graph_on_follow(action)
                         /\ ~ signal'.recalculated)
             /\ ENABLED (/\ update_interest_graph_on_follow(action)
                         /\ signal'.recalculated)
    /\ CanLike =>
          /\ ENABLED (update_interest_graph_on_like /\ ~ signal'.recalculated)
          /\ ENABLED (update_interest_graph_on_like /\ signal'.recalculated)

====
